---- MODULE Spec2Model ----
(***************************************************************************)
(* The generation-strategy state machine of ax.modelbridge:                *)
(* GenerationStep (generation_node.py) and GenerationStrategy              *)
(* (generation_strategy.py), together with the experiment whose trials     *)
(* the strategy counts.  Indices are 0-based as in the code, so step i of  *)
(* the strategy is steps[i + 1] and trial t of the experiment is           *)
(* trials[t + 1].                                                          *)
(***************************************************************************)
EXTENDS Integers, Sequences, FiniteSets, TLC

\* ------------------------------------------------------------------ bounds
\* The number of generator runs (and so of trials) a behaviour produces.
MaxRuns == 2

\* The most fit calls made on a GenerationNode used on its own.
MaxFits == 2

\* MAX_GEN_DRAWS, the default of max_gen_draws_for_deduplication.
MAX_GEN_DRAWS == 5

\* ------------------------------------------------------------ option type
\* Python's Optional[x]: None is the empty tuple, a present value x is <<x>>.
None == <<>>
Some(x) == <<x>>
Val(o) == o[1]

Min(a, b) == IF a <= b THEN a ELSE b
Max(a, b) == IF a >= b THEN a ELSE b

\* ------------------------------------------------------------------ state
VARIABLES
    steps,           \* GenerationStrategy._steps
    curr,            \* index of GenerationStrategy._curr
    generator_runs,  \* GenerationStrategy._generator_runs
    experiment,      \* GenerationStrategy._experiment ([name, copy]), or None
    model,           \* GenerationStrategy._model (the step it was fitted for), or None
    fitted,          \* steps whose model_spec._fitted_model is set
    seen,            \* _seen_trial_indices_by_status[COMPLETED], or None
    trials,          \* experiment.trials: [step, status, arms] in creation order
    search_space,    \* the arms the model can propose for the experiment
    pending,         \* generator runs returned to the caller, not yet made into trials
    criteria_met,    \* the completion criteria (by position) whose is_met is True
    last,            \* the call that has just ended and how, until the caller takes it
    completed,       \* whether a gen call has raised GenerationStrategyCompleted
    node_call,       \* a call made on a node or a step on its own: arguments and result
    node             \* a GenerationNode used on its own: its fields and what it has done

vars == <<steps, curr, generator_runs, experiment, model, fitted, seen,
          trials, search_space, pending, criteria_met, last, completed, node_call, node>>

\* ----------------------------------------------------------- trial status
CANDIDATE == "CANDIDATE"
RUNNING == "RUNNING"
COMPLETED == "COMPLETED"
EARLY_STOPPED == "EARLY_STOPPED"
FAILED == "FAILED"
ABANDONED == "ABANDONED"

TrialStatus == {CANDIDATE, RUNNING, COMPLETED, EARLY_STOPPED, FAILED, ABANDONED}

\* experiment.trial_indices_by_status[status]
trial_indices_by_status(status) ==
    {t \in 0..(Len(trials) - 1) : trials[t + 1].status = status}

\* ------------------------------------------------------- step construction
\* A variant of post_init_ok that checks the steps that do not enforce their
\* budget too.
post_init_ok_always_enforcing(num_trials, min_trials_observed, enforce_num_trials) ==
    ~(num_trials >= 0 /\ min_trials_observed > num_trials)

\* GenerationStep.__post_init__: the budget / min-observed check.
post_init_ok(num_trials, min_trials_observed, enforce_num_trials) ==
    ~(enforce_num_trials /\ num_trials >= 0 /\ min_trials_observed > num_trials)

\* GenerationStep(...): the fields of a step before the strategy numbers it
\* (index is -1 until then).
GenerationStep(num_trials, min_trials_observed, max_parallelism, use_update, enforce_num_trials, completion_criteria) ==
    [num_trials |-> num_trials,
     min_trials_observed |-> min_trials_observed,
     max_parallelism |-> max_parallelism,
     use_update |-> use_update,
     enforce_num_trials |-> enforce_num_trials,
     completion_criteria |-> completion_criteria,
     should_deduplicate |-> FALSE,
     index |-> -1]

\* GenerationStep(..., should_deduplicate=True)
deduplicating(c) == [c EXCEPT !.should_deduplicate = TRUE]

\* The step configurations the model draws strategies from.  A field that is
\* not varied has the default of the dataclass (min_trials_observed 0,
\* max_parallelism None, use_update False, enforce_num_trials True, no
\* completion criteria).
BudgetConfigs ==
    {GenerationStep(n, o, None, FALSE, e, 0) :
        n \in {1, 2}, o \in {0, 1, 2}, e \in BOOLEAN}

ParallelismConfigs ==
    {GenerationStep(n, o, Some(p), FALSE, e, 0) :
        n \in {1, 2}, o \in {0, 1}, p \in {1, 2}, e \in BOOLEAN}
    \cup {GenerationStep(-1, 0, Some(p), FALSE, TRUE, 0) : p \in {1, 2}}

CriteriaConfigs ==
    {GenerationStep(-1, 0, None, FALSE, TRUE, c) : c \in {0, 1, 2}}

UpdateConfigs ==
    {GenerationStep(n, 0, None, TRUE, TRUE, 0) : n \in {-1, 2}}

StepConfigs ==
    {c \in BudgetConfigs \cup ParallelismConfigs \cup CriteriaConfigs \cup UpdateConfigs :
        post_init_ok(c.num_trials, c.min_trials_observed, c.enforce_num_trials)}

\* The first and the second steps of the two-step strategies.
FirstStepConfigs ==
    {GenerationStep(1, o, None, FALSE, e, 0) : o \in {0, 1}, e \in BOOLEAN}
    \cup {GenerationStep(-1, 0, None, FALSE, TRUE, 1)}

SecondStepConfigs ==
    {GenerationStep(1, 0, None, FALSE, TRUE, 0),
     GenerationStep(-1, 0, None, FALSE, TRUE, 0),
     GenerationStep(1, 0, None, TRUE, TRUE, 0)}

\* A variant of step_ok that lets any step be unlimited without criteria.
step_ok_unlimited_anywhere(cs, i) ==
    /\ IF cs[i].num_trials = -1 /\ cs[i].completion_criteria < 1
       THEN TRUE
       ELSE ~(cs[i].num_trials < 1 /\ cs[i].num_trials # -1)
    /\ ~(cs[i].max_parallelism # None /\ Val(cs[i].max_parallelism) < 1)

\* GenerationStrategy.__init__: the checks of the step at position i (idx i - 1),
\* TRUE when none of them raises UserInputError.
step_ok(cs, i) ==
    /\ IF cs[i].num_trials = -1 /\ cs[i].completion_criteria < 1
       THEN ~(i - 1 < Len(cs) - 1)
       ELSE ~(cs[i].num_trials < 1 /\ cs[i].num_trials # -1)
    /\ ~(cs[i].max_parallelism # None /\ Val(cs[i].max_parallelism) < 1)

\* GenerationStrategy.__init__: the per-step validation.
init_ok(cs) == \A i \in 1..Len(cs) : step_ok(cs, i)

\* GenerationStrategy.__init__: step.index = idx for every step.
with_index(cs) ==
    [i \in 1..Len(cs) |->
        [num_trials |-> cs[i].num_trials,
         min_trials_observed |-> cs[i].min_trials_observed,
         max_parallelism |-> cs[i].max_parallelism,
         use_update |-> cs[i].use_update,
         enforce_num_trials |-> cs[i].enforce_num_trials,
         completion_criteria |-> cs[i].completion_criteria,
         should_deduplicate |-> cs[i].should_deduplicate,
         index |-> i - 1]]

\* The strategies of the model: the lists of steps that __init__ accepts.
Strategies ==
    {with_index(cs) : cs \in
        {x \in {<<c>> : c \in StepConfigs}
               \cup {<<c, d>> : c \in FirstStepConfigs, d \in SecondStepConfigs} :
            init_ok(x)}}

\* ------------------------------------------------------------ GenerationStep
\* A variant of step_trials that takes every trial trial_indices maps: those of
\* the steps up to and including s.
step_trials_up_to(s) ==
    {t \in 0..(Len(trials) - 1) : trials[t + 1].step <= s.index}

\* GenerationStep.trial_indices[self.index]: the trials generated by step s.
step_trials(s) ==
    {t \in 0..(Len(trials) - 1) : trials[t + 1].step = s.index}

\* A variant of num_can_complete that counts only the trials that have not ended
\* (completed and early-stopped trials left out as well).
num_can_complete_unfinished(s) ==
    Cardinality(step_trials(s) \cap
        (trial_indices_by_status(CANDIDATE) \cup trial_indices_by_status(RUNNING)))

\* A variant of num_can_complete that also counts the failed and the abandoned
\* trials of the step.
num_can_complete_with_lost(s) == Cardinality(step_trials(s))

\* GenerationStep.num_can_complete
num_can_complete(s) ==
    LET num_will_not_complete ==
            Cardinality(step_trials(s) \cap
                (trial_indices_by_status(FAILED) \cup trial_indices_by_status(ABANDONED)))
    IN  Cardinality(step_trials(s)) - num_will_not_complete

\* A variant of num_completed that counts the early-stopped trials only.
num_completed_early_stopped(s) ==
    Cardinality(step_trials(s) \cap trial_indices_by_status(EARLY_STOPPED))

\* GenerationStep._num_completed
num_completed(s) ==
    Cardinality(step_trials(s) \cap
        (trial_indices_by_status(COMPLETED) \cup trial_indices_by_status(EARLY_STOPPED)))

\* GenerationStep.num_trials_to_gen_and_complete: <<left_to_gen, left_to_complete>>
num_trials_to_gen_and_complete(s) ==
    IF s.num_trials = -1
    THEN <<-1, -1>>
    ELSE <<Max(s.num_trials - num_can_complete(s), 0),
           Max(s.min_trials_observed - num_completed(s), 0)>>

\* GenerationStep.num_running_trials
num_running_trials(s) ==
    Cardinality({t \in 0..(Len(trials) - 1) :
        trials[t + 1].step = s.index /\ trials[t + 1].status = RUNNING})

\* A variant of num_remaining_trials_until_max_parallelism that raises only when
\* num_running > max_parallelism.
num_remaining_strictly_exceeded(s, raise_max_parallelism_reached_exception) ==
    LET max_parallelism == s.max_parallelism
        num_running == num_running_trials(s)
    IN  IF max_parallelism = None
        THEN [raised |-> FALSE, value |-> None, step_index |-> -1, num_running |-> -1]
        ELSE IF raise_max_parallelism_reached_exception
                /\ num_running > Val(max_parallelism)
        THEN [raised |-> TRUE, value |-> None, step_index |-> s.index,
              num_running |-> num_running]
        ELSE [raised |-> FALSE, value |-> Some(Val(max_parallelism) - num_running),
              step_index |-> -1, num_running |-> -1]

\* GenerationStep.num_remaining_trials_until_max_parallelism: whether it raises
\* MaxParallelismReachedException (with the step_index and num_running it then
\* carries), and otherwise the Optional[int] it returns.
num_remaining_trials_until_max_parallelism(s, raise_max_parallelism_reached_exception) ==
    LET max_parallelism == s.max_parallelism
        num_running == num_running_trials(s)
    IN  IF max_parallelism = None
        THEN [raised |-> FALSE, value |-> None, step_index |-> -1, num_running |-> -1]
        ELSE IF raise_max_parallelism_reached_exception
                /\ num_running >= Val(max_parallelism)
        THEN [raised |-> TRUE, value |-> None, step_index |-> s.index,
              num_running |-> num_running]
        ELSE [raised |-> FALSE, value |-> Some(Val(max_parallelism) - num_running),
              step_index |-> -1, num_running |-> -1]

\* The trials experiment.lookup_data() has rows for: data is attached when a trial
\* completes or is stopped early.
lookup_data ==
    trial_indices_by_status(COMPLETED) \cup trial_indices_by_status(EARLY_STOPPED)

\* A variant of get_data_for_fit that raises NoDataError on any empty data.
get_data_for_fit_never_empty(s, passed_in_data, previous_step_required_observations) ==
    LET data == IF passed_in_data = None
                THEN IF s.use_update
                     THEN lookup_data \cap trial_indices_by_status(COMPLETED)
                     ELSE lookup_data
                ELSE Val(passed_in_data)
    IN  IF data = {}
        THEN [exc |-> "NoDataError", data |-> {}]
        ELSE [exc |-> "", data |-> data]

\* GenerationStep.get_data_for_fit: whether it raises (and what), and the trials
\* of the data it returns.  No metric of the experiment is available while a
\* trial is running, so the NotImplementedError of the use_update branch is not
\* raised.
get_data_for_fit(s, passed_in_data, previous_step_required_observations) ==
    LET data == IF passed_in_data = None
                THEN IF s.use_update
                     THEN lookup_data \cap trial_indices_by_status(COMPLETED)
                     ELSE lookup_data
                ELSE Val(passed_in_data)
    IN  IF data = {} /\ previous_step_required_observations
        THEN [exc |-> "NoDataError", data |-> {}]
        ELSE [exc |-> "", data |-> data]

\* -------------------------------------------------------- GenerationStrategy
\* GenerationStrategy._maybe_move_to_next_step: the exception it raises (or ""),
\* and the current step and the model it leaves.
NoMove == [exc |-> "", curr |-> curr, model |-> model, moved |-> FALSE]
\* A variant of MoveRaise that starts over at the first step when the last step
\* is done, instead of raising GenerationStrategyCompleted.
MoveRaise_restart(e) ==
    IF e = "GenerationStrategyCompleted"
    THEN [exc |-> "", curr |-> 0, model |-> None, moved |-> TRUE]
    ELSE [exc |-> e, curr |-> curr, model |-> model, moved |-> FALSE]

MoveRaise(e) == [exc |-> e, curr |-> curr, model |-> model, moved |-> FALSE]
\* A variant of MoveToNext that does not unset the strategy's model.
MoveToNext_keeps_model(s) ==
    [exc |-> "", curr |-> s.index + 1, model |-> model, moved |-> TRUE]

MoveToNext(s) == [exc |-> "", curr |-> s.index + 1, model |-> None, moved |-> TRUE]

\* A variant of all_criteria_met that is content with one criterion met.
any_criterion_met(s) == \E j \in 1..s.completion_criteria : j \in criteria_met

\* all(criterion.is_met(experiment) for criterion in step.completion_criteria)
all_criteria_met(s) == \A j \in 1..s.completion_criteria : j \in criteria_met

\* A variant of move_decision that raises DataRequiredError whether or not the
\* step enforces its budget.
move_decision_not_enforcing(s, to_gen, to_complete, raise_data_required_error) ==
    LET trials_left_to_gen == to_gen > 0
        trials_left_to_complete == to_complete > 0
    IN  IF to_gen = -1 /\ to_complete = -1
        THEN IF s.completion_criteria > 0 /\ all_criteria_met(s)
             THEN IF Len(steps) = s.index + 1
                  THEN MoveRaise("GenerationStrategyCompleted")
                  ELSE MoveToNext(s)
             ELSE NoMove
        ELSE IF trials_left_to_gen \/ trials_left_to_complete
        THEN IF raise_data_required_error /\ ~trials_left_to_gen
             THEN MoveRaise("DataRequiredError")
             ELSE NoMove
        ELSE IF Len(steps) = s.index + 1
        THEN MoveRaise("GenerationStrategyCompleted")
        ELSE MoveToNext(s)

\* A variant of move_decision that never raises DataRequiredError.
move_decision_never_data_required(s, to_gen, to_complete, raise_data_required_error) ==
    LET trials_left_to_gen == to_gen > 0
        trials_left_to_complete == to_complete > 0
    IN  IF to_gen = -1 /\ to_complete = -1
        THEN IF s.completion_criteria > 0 /\ all_criteria_met(s)
             THEN IF Len(steps) = s.index + 1
                  THEN MoveRaise("GenerationStrategyCompleted")
                  ELSE MoveToNext(s)
             ELSE NoMove
        ELSE IF trials_left_to_gen \/ trials_left_to_complete
        THEN NoMove
        ELSE IF Len(steps) = s.index + 1
        THEN MoveRaise("GenerationStrategyCompleted")
        ELSE MoveToNext(s)

\* GenerationStrategy._maybe_move_to_next_step, from the two counts of the step.
move_decision(s, to_gen, to_complete, raise_data_required_error) ==
    LET enforcing_num_trials == s.enforce_num_trials
        trials_left_to_gen == to_gen > 0
        trials_left_to_complete == to_complete > 0
    IN  IF to_gen = -1 /\ to_complete = -1
        THEN IF s.completion_criteria > 0 /\ all_criteria_met(s)
             THEN IF Len(steps) = s.index + 1
                  THEN MoveRaise("GenerationStrategyCompleted")
                  ELSE MoveToNext(s)
             ELSE NoMove
        ELSE IF trials_left_to_gen \/ trials_left_to_complete
        THEN IF raise_data_required_error /\ enforcing_num_trials
                /\ ~trials_left_to_gen
             THEN MoveRaise("DataRequiredError")
             ELSE NoMove
        ELSE IF Len(steps) = s.index + 1
        THEN MoveRaise("GenerationStrategyCompleted")
        ELSE MoveToNext(s)

move_counts(s, counts, raise_data_required_error) ==
    move_decision(s, counts[1], counts[2], raise_data_required_error)

\* A variant of maybe_move_to_next_step that, having moved, also leaves the step
\* it lands on when that step can be left.
maybe_move_through_steps(raise_data_required_error) ==
    LET first == move_counts(steps[curr + 1],
                             num_trials_to_gen_and_complete(steps[curr + 1]),
                             raise_data_required_error)
        second == move_counts(steps[first.curr + 1],
                              num_trials_to_gen_and_complete(steps[first.curr + 1]),
                              raise_data_required_error)
    IN  IF first.moved /\ second.moved THEN second ELSE first

\* GenerationStrategy._maybe_move_to_next_step on the current step.
maybe_move_to_next_step(raise_data_required_error) ==
    move_counts(steps[curr + 1], num_trials_to_gen_and_complete(steps[curr + 1]),
                raise_data_required_error)

\* A variant of find_trials_completed_since_last_gen that forgets the snapshot.
find_trials_completed_now == trial_indices_by_status(COMPLETED)

\* GenerationStrategy._find_trials_completed_since_last_gen
find_trials_completed_since_last_gen ==
    LET completed_now == trial_indices_by_status(COMPLETED)
    IN  IF seen = None THEN completed_now ELSE completed_now \ Val(seen)

\* GenerationStrategy._get_data_for_update: None, or the trials of the new data.
get_data_for_update(passed_in_data) ==
    LET newly_completed_trials == find_trials_completed_since_last_gen
    IN  IF newly_completed_trials = {}
        THEN None
        ELSE IF passed_in_data = None
        THEN IF lookup_data \cap newly_completed_trials = {}
             THEN None
             ELSE Some(lookup_data \cap newly_completed_trials)
        ELSE IF Val(passed_in_data) = {}
        THEN None
        ELSE Some(Val(passed_in_data) \cap newly_completed_trials)

\* GenerationStrategy._save_seen_trial_indices
save_seen_trial_indices == Some(trial_indices_by_status(COMPLETED))

\* GenerationStrategy._fit_or_update_current_model for the step c and the model
\* mdl that the transition left: the exception raised (or ""), the model, the
\* fitted steps and the snapshot it leaves, and what it did (fit, update, nothing).
fit_result(s, mdl, fit_data) ==
    IF fit_data.exc # ""
    THEN [exc |-> fit_data.exc, model |-> mdl, fitted |-> fitted, seen |-> seen,
          fit |-> "nothing", data |-> {}]
    ELSE [exc |-> "", model |-> Some(s.index), fitted |-> fitted \cup {s.index},
          seen |-> save_seen_trial_indices, fit |-> "fit", data |-> fit_data.data]

update_result(mdl, new_data) ==
    [exc |-> "", model |-> mdl, fitted |-> fitted, seen |-> save_seen_trial_indices,
     fit |-> IF new_data # None THEN "update" ELSE "nothing",
     data |-> IF new_data # None THEN Val(new_data) ELSE {}]

\* A variant of fit_or_update_current_model that updates whenever the step uses
\* update, whether or not the strategy has a model.
fit_or_update_by_step_only(c, mdl, data) ==
    LET s == steps[c + 1]
        previous_step_req_observations ==
            s.index > 0 /\ steps[s.index].min_trials_observed > 0
    IN  IF s.use_update
        THEN update_result(mdl, get_data_for_update(data))
        ELSE fit_result(s, mdl, get_data_for_fit(s, data, previous_step_req_observations))

\* GenerationStrategy._fit_or_update_current_model for the step of index c and
\* the model mdl that the transition left.
fit_or_update_current_model(c, mdl, data) ==
    LET s == steps[c + 1]
        previous_step_req_observations ==
            s.index > 0 /\ steps[s.index].min_trials_observed > 0
    IN  IF mdl # None /\ s.use_update
        THEN update_result(mdl, get_data_for_update(data))
        ELSE fit_result(s, mdl, get_data_for_fit(s, data, previous_step_req_observations))

\* ---------------------------------------------------------- GenerationNode.gen
\* What the model proposes, draw after draw: the batch of arms `first` on each
\* of its first k draws and the batch `rest` on every later draw, for k in ks.
Batches(space) == (SUBSET space) \ {{}}

DrawStreams(space, ks) ==
    {[k |-> k, first |-> x, rest |-> y] : k \in ks, x \in Batches(space),
                                         y \in Batches(space)}

\* Every proposal sequence once: with k = 0 the batch `first` is never drawn.
ModelDraws(space, ks) ==
    {d \in DrawStreams(space, ks) : (d.k = 0) = (d.first = d.rest)}

\* The model of a strategy's step changes its proposal at once, after one draw,
\* or after MAX_GEN_DRAWS draws.
StepModelDraws == ModelDraws(search_space, {0, 1, MAX_GEN_DRAWS})

\* model_spec.gen(...) at the n-th draw (n = 1, 2, ...).
model_spec_gen(draws, n) == IF n <= draws.k THEN draws.first ELSE draws.rest

\* A variant of should_generate_run that never asks for another draw.
should_generate_run_never(should_deduplicate, arms_by_signature_for_deduplication, arms) ==
    FALSE

\* GenerationNode.gen: should_generate_run after a draw that proposed `arms`.
\* An absent (None) or empty signature map is falsy.
should_generate_run(should_deduplicate, arms_by_signature_for_deduplication, arms) ==
    /\ should_deduplicate
    /\ arms_by_signature_for_deduplication # None
    /\ Val(arms_by_signature_for_deduplication) # {}
    /\ \E arm \in arms : arm \in Val(arms_by_signature_for_deduplication)

\* A variant of draws_exceeded that gives up at the limit itself.
draws_exceeded_at_limit(n_gen_draws, max_gen_draws_for_deduplication) ==
    n_gen_draws >= max_gen_draws_for_deduplication

\* GenerationNode.gen: n_gen_draws > max_gen_draws_for_deduplication
draws_exceeded(n_gen_draws, max_gen_draws_for_deduplication) ==
    n_gen_draws > max_gen_draws_for_deduplication

\* GenerationNode.gen: the while loop after n_gen_draws draws, the model being
\* at its draw number `from` + 1 when the call began.  The exception raised (or
\* ""), the arms of the generator run returned, and the draws made.
RECURSIVE node_gen_loop(_, _, _, _, _, _)
node_gen_loop(should_deduplicate, sigs, max_gen_draws_for_deduplication, draws, from, n_gen_draws) ==
    LET arms == model_spec_gen(draws, from + n_gen_draws + 1)
    IN  IF should_generate_run(should_deduplicate, sigs, arms)
        THEN IF draws_exceeded(n_gen_draws + 1, max_gen_draws_for_deduplication)
             THEN [exc |-> "GenerationStrategyRepeatedPoints", arms |-> {},
                   n_gen_draws |-> n_gen_draws + 1]
             ELSE node_gen_loop(should_deduplicate, sigs,
                                max_gen_draws_for_deduplication, draws, from,
                                n_gen_draws + 1)
        ELSE [exc |-> "", arms |-> arms, n_gen_draws |-> n_gen_draws + 1]

node_gen(should_deduplicate, arms_by_signature_for_deduplication, max_gen_draws_for_deduplication, draws, from) ==
    node_gen_loop(should_deduplicate, arms_by_signature_for_deduplication,
                  max_gen_draws_for_deduplication, draws, from, 0)

\* experiment.arms_by_signature (its keys): the arms of the experiment's trials.
arms_by_signature == UNION {trials[t].arms : t \in 1..Len(trials)}

\* A variant of step_gen that leaves the run's _generation_step_index unset.
step_gen_untagged(s, id, arms) == [id |-> id, step |-> -1, arms |-> arms]

\* A variant of step_gen that numbers the steps from the last one.
step_gen_numbered_from_last(s, id, arms) ==
    [id |-> id, step |-> Len(steps) - 1 - s.index, arms |-> arms]

\* GenerationStep.gen: the generator run produced, tagged with the step's index.
step_gen(s, id, arms) == [id |-> id, step |-> s.index, arms |-> arms]

\* Variants of clamp_num_generator_runs: without the clamp to the step's budget,
\* without the clamp to the parallelism left, with the budget clamp applied
\* whether or not the step enforces its budget, and with a budget clamp that
\* is one too large.
clamp_parallelism_only(s, num_generator_runs, num_until_max_parallelism) ==
    IF num_until_max_parallelism # None
    THEN Min(num_generator_runs, Val(num_until_max_parallelism))
    ELSE num_generator_runs

clamp_budget_only(s, num_generator_runs, num_until_max_parallelism) ==
    IF s.enforce_num_trials /\ s.num_trials > 0
    THEN Min(num_generator_runs, s.num_trials - num_can_complete(s))
    ELSE num_generator_runs

clamp_budget_always(s, num_generator_runs, num_until_max_parallelism) ==
    LET n1 == IF num_until_max_parallelism # None
              THEN Min(num_generator_runs, Val(num_until_max_parallelism))
              ELSE num_generator_runs
    IN  IF s.num_trials > 0
        THEN Min(n1, s.num_trials - num_can_complete(s))
        ELSE n1

clamp_budget_off_by_one(s, num_generator_runs, num_until_max_parallelism) ==
    LET n1 == IF num_until_max_parallelism # None
              THEN Min(num_generator_runs, Val(num_until_max_parallelism))
              ELSE num_generator_runs
    IN  IF s.enforce_num_trials /\ s.num_trials > 0
        THEN Min(n1, s.num_trials - num_can_complete(s) + 1)
        ELSE n1

\* The clamp of GenerationStrategy._gen_multiple: the number of iterations of its
\* generation loop for s, the current step.
clamp_num_generator_runs(s, num_generator_runs, num_until_max_parallelism) ==
    LET n1 == IF num_until_max_parallelism # None
              THEN Min(num_generator_runs, Val(num_until_max_parallelism))
              ELSE num_generator_runs
    IN  IF s.enforce_num_trials /\ s.num_trials > 0
        THEN Min(n1, s.num_trials - num_can_complete(s))
        ELSE n1

\* A variant of on_data_required that always leaves the loop quietly.
on_data_required_swallowed(i, draws_made, history, returned) ==
    [exc |-> "", history |-> history, returned |-> returned,
     failed_at |-> i, n_gen_draws |-> draws_made]

\* The except clause of the generation loop, at iteration i: DataRequiredError
\* is raised again when no run was produced, and ends the loop otherwise.
on_data_required(i, draws_made, history, returned) ==
    [exc |-> IF Len(returned) = 0 THEN "DataRequiredError" ELSE "",
     history |-> history, returned |-> returned,
     failed_at |-> i, n_gen_draws |-> draws_made]

\* The generation loop of GenerationStrategy._gen_multiple from iteration i on:
\* num iterations in all, the model's gen raising DataRequiredError at iteration
\* fail_at (never if fail_at >= num) and proposing `draws` otherwise, of which
\* draws_made are used up.  history is self._generator_runs and returned the
\* local list generator_runs.  The exception that leaves the loop (or ""), the
\* two lists, the iteration at which DataRequiredError was caught (or -1), and
\* the draws made.
RECURSIVE gen_loop(_, _, _, _, _, _, _, _)
gen_loop(s, i, num, fail_at, draws, draws_made, history, returned) ==
    IF i >= num
    THEN [exc |-> "", history |-> history, returned |-> returned,
          failed_at |-> -1, n_gen_draws |-> draws_made]
    ELSE IF i = fail_at
    THEN on_data_required(i, draws_made, history, returned)
    ELSE LET g == node_gen(s.should_deduplicate, Some(arms_by_signature),
                           MAX_GEN_DRAWS, draws, draws_made)
         IN  IF g.exc # ""
             THEN [exc |-> g.exc, history |-> history, returned |-> returned,
                   failed_at |-> -1, n_gen_draws |-> draws_made + g.n_gen_draws]
             ELSE gen_loop(s, i + 1, num, fail_at, draws,
                           draws_made + g.n_gen_draws,
                           Append(history, step_gen(s, Len(history) + 1, g.arms)),
                           Append(returned, step_gen(s, Len(history) + 1, g.arms)))

\* A variant of experiment_setter_ok that accepts every experiment.
experiment_setter_accepts_all(e) == TRUE

\* GenerationStrategy.experiment (setter): whether experiment e is accepted.
experiment_setter_ok(e) == experiment = None \/ e.name = Val(experiment).name

\* What a call leaves behind: the stage at which it ended (bind, move, fit,
\* parallelism, loop, or done when it returned), the exception raised (or ""),
\* the strategy's fields, the generator runs it returns, and what happened in
\* its generation loop (the iteration at which DataRequiredError was caught, or
\* -1, and the draws made).
NoLoop == [failed_at |-> -1, n_gen_draws |-> 0]

Outcome(stage, exc, exp, c, mdl, fit, sn, did, data, moved, history, returned, loop) ==
    [stage |-> stage, exc |-> exc, experiment |-> exp, curr |-> c, model |-> mdl,
     fitted |-> fit, seen |-> sn, fit |-> did, data |-> data, moved |-> moved,
     generator_runs |-> history, returned |-> returned, loop |-> loop]

\* GenerationStrategy._gen_multiple, in its stages: the generation loop after the
\* clamp, the parallelism check after the fit, the fit after the transition.
gen_multiple_loop(e, mv, fu, loop) ==
    Outcome(IF loop.exc # "" THEN "loop" ELSE "done", loop.exc, Some(e), mv.curr,
            fu.model, fu.fitted, fu.seen, fu.fit, fu.data, mv.moved, loop.history,
            IF loop.exc # "" THEN <<>> ELSE loop.returned,
            [failed_at |-> loop.failed_at, n_gen_draws |-> loop.n_gen_draws])

gen_multiple_clamp(e, num_generator_runs, fail_at, draws, mv, fu, par) ==
    IF par.raised
    THEN Outcome("parallelism", "MaxParallelismReachedException", Some(e), mv.curr,
                 fu.model, fu.fitted, fu.seen, fu.fit, fu.data, mv.moved,
                 generator_runs, <<>>, NoLoop)
    ELSE gen_multiple_loop(e, mv, fu,
            gen_loop(steps[mv.curr + 1], 0,
                     clamp_num_generator_runs(steps[mv.curr + 1], num_generator_runs,
                                              par.value),
                     fail_at, draws, 0, generator_runs, <<>>))

gen_multiple_fit(e, num_generator_runs, fail_at, draws, mv, fu) ==
    IF fu.exc # ""
    THEN Outcome("fit", fu.exc, Some(e), mv.curr, fu.model, fu.fitted, fu.seen,
                 "nothing", {}, mv.moved, generator_runs, <<>>, NoLoop)
    ELSE gen_multiple_clamp(e, num_generator_runs, fail_at, draws, mv, fu,
            num_remaining_trials_until_max_parallelism(steps[mv.curr + 1], TRUE))

gen_multiple_move(e, num_generator_runs, data, fail_at, draws, mv) ==
    IF mv.exc # ""
    THEN Outcome("move", mv.exc, Some(e), curr, model, fitted, seen,
                 "nothing", {}, FALSE, generator_runs, <<>>, NoLoop)
    ELSE gen_multiple_fit(e, num_generator_runs, fail_at, draws, mv,
            fit_or_update_current_model(mv.curr, mv.model, data))

gen_multiple(e, num_generator_runs, data, fail_at, draws) ==
    IF ~experiment_setter_ok(e)
    THEN Outcome("bind", "ValueError", experiment, curr, model, fitted, seen,
                 "nothing", {}, FALSE, generator_runs, <<>>, NoLoop)
    ELSE gen_multiple_move(e, num_generator_runs, data, fail_at, draws,
                           maybe_move_to_next_step(TRUE))

\* The record of a call that has ended: the operation, the number of runs asked
\* for, the stage it ended at, its exception (or ""), whether the strategy moved
\* to the next step, what the model was given (fit, update, nothing, and the
\* trials of the data), the runs returned, the tuple a probe returned, what
\* happened in the generation loop, and the data and the experiment (or None)
\* the caller passed in.
Last(op, requested, stage, exc, moved, did, data, returned, limit, loop, passed_in_data, e) ==
    [op |-> op, requested |-> requested, stage |-> stage, exc |-> exc,
     moved |-> moved, fit |-> did, data |-> data, returned |-> returned,
     limit |-> limit, loop |-> loop, passed_in_data |-> passed_in_data,
     experiment |-> e]

NoLast == Last("none", 0, "", "", FALSE, "nothing", {}, <<>>, <<>>, NoLoop, None, None)

Idle == last.op = "none"

ExperimentNames == {"exp", "other"}

\* An Experiment object: its _name, and which object of that name it is.  The
\* objects named "exp" are the experiment of the model's trials and a second
\* object of the same name holding the same trials (the experiment loaded anew).
Experiment(name, copy) == [name |-> name, copy |-> copy]

Experiments == {Experiment(name, 1) : name \in ExperimentNames}

ReloadedExperiment == Experiment("exp", 2)

PassedInData == {None, Some({})}

\* No call of GenerationNode.gen on its own is under way.
NoNodeCall == [state |-> "none"]

\* No GenerationNode is used on its own.
NoNode == [model_specs |-> 0]

\* One call of GenerationStrategy._gen_multiple on the experiment, in a history
\* of at most max_runs generator runs.  The first experiment the strategy is
\* given is the one whose trials the model holds.
GenCallWithin(op, e, m, data, fail_at, draws, max_runs) ==
    \E r \in {gen_multiple(e, m, data, fail_at, draws)} :
    LET index_error == op = "gen" /\ r.exc = "" /\ r.returned = <<>>
    IN  /\ experiment = None => e.name = "exp"
        /\ Len(r.generator_runs) <= max_runs
        /\ experiment' = r.experiment
        /\ curr' = r.curr
        /\ model' = r.model
        /\ fitted' = r.fitted
        /\ seen' = r.seen
        /\ generator_runs' = r.generator_runs
        /\ last' = Last(op, m, r.stage, IF index_error THEN "IndexError" ELSE r.exc,
                        r.moved, r.fit, r.data, r.returned, <<>>, r.loop, data, Some(e))
        /\ completed' = (completed \/ r.exc = "GenerationStrategyCompleted")
        /\ UNCHANGED <<steps, trials, search_space, pending, criteria_met, node_call, node>>

GenCall(op, e, m, data, fail_at, draws) ==
    GenCallWithin(op, e, m, data, fail_at, draws, MaxRuns)

\* GenerationStrategy.gen: _gen_multiple(num_generator_runs=1)[0]
Gen ==
    /\ Idle
    /\ \E e \in Experiments, data \in PassedInData, fail_at \in 0..1,
          draws \in StepModelDraws :
        GenCall("gen", e, 1, data, fail_at, draws)

\* GenerationStrategy._gen_multiple called by the scheduler (fail_at = m: the
\* model's gen does not raise DataRequiredError in the call).
GenMultiple ==
    /\ Idle
    /\ \E e \in Experiments, m \in 1..MaxRuns, data \in PassedInData :
        \E fail_at \in 0..m, draws \in StepModelDraws :
            GenCall("_gen_multiple", e, m, data, fail_at, draws)

\* A variant of run_limit that also reports completion when nothing is left to
\* generate in the current step.
run_limit_completed_when_spent(mv, to_gen, until_max_parallelism) ==
    IF mv.exc = "GenerationStrategyCompleted" \/ to_gen = 0
    THEN [exc |-> "", limit |-> <<0, TRUE>>, mv |-> mv]
    ELSE IF until_max_parallelism # None /\ to_gen = -1
    THEN [exc |-> "", limit |-> <<Val(until_max_parallelism), FALSE>>, mv |-> mv]
    ELSE IF until_max_parallelism # None
    THEN [exc |-> "", limit |-> <<Min(to_gen, Val(until_max_parallelism)), FALSE>>,
          mv |-> mv]
    ELSE [exc |-> "", limit |-> <<to_gen, FALSE>>, mv |-> mv]

\* GenerationStrategy.current_generator_run_limit: the exception raised (or ""),
\* the tuple returned, and the current step and model it leaves.
run_limit(mv, to_gen, until_max_parallelism) ==
    IF mv.exc = "GenerationStrategyCompleted"
    THEN [exc |-> "", limit |-> <<0, TRUE>>, mv |-> mv]
    ELSE IF to_gen < -1
    THEN [exc |-> "RuntimeError", limit |-> <<>>, mv |-> mv]
    ELSE IF until_max_parallelism # None /\ to_gen = -1
    THEN [exc |-> "", limit |-> <<Val(until_max_parallelism), FALSE>>, mv |-> mv]
    ELSE IF until_max_parallelism # None
    THEN [exc |-> "", limit |-> <<Min(to_gen, Val(until_max_parallelism)), FALSE>>,
          mv |-> mv]
    ELSE [exc |-> "", limit |-> <<to_gen, FALSE>>, mv |-> mv]

run_limit_after_move(mv) ==
    run_limit(mv, num_trials_to_gen_and_complete(steps[mv.curr + 1])[1],
              num_remaining_trials_until_max_parallelism(steps[mv.curr + 1], FALSE).value)

current_generator_run_limit == run_limit_after_move(maybe_move_to_next_step(FALSE))

\* One call of current_generator_run_limit.  With no experiment set, the
\* experiment property raises ValueError at the first trial count.
Probe ==
    /\ Idle
    /\ IF experiment = None
       THEN /\ last' = Last("current_generator_run_limit", 0, "move", "ValueError",
                            FALSE, "nothing", {}, <<>>, <<>>, NoLoop, None, None)
            /\ UNCHANGED <<curr, model>>
       ELSE \E r \in {current_generator_run_limit} :
            /\ curr' = r.mv.curr
            /\ model' = r.mv.model
            /\ last' = Last("current_generator_run_limit", 0, "done", r.exc,
                            r.mv.moved, "nothing", {}, <<>>, r.limit, NoLoop, None, None)
    /\ UNCHANGED <<steps, generator_runs, experiment, fitted, seen, trials,
                   search_space, pending, criteria_met, completed, node_call, node>>

\* sum(xs) of a list of integers.
RECURSIVE sum(_)
sum(xs) == IF xs = <<>> THEN 0 ELSE Head(xs) + sum(Tail(xs))

\* GenerationStrategy.model_transitions (the property):
\* [sum(gen_changes[: i + 1]) for i in range(len(gen_changes))][:-1]
model_transitions ==
    LET gen_changes == [i \in 1..Len(steps) |-> steps[i].num_trials]
    IN  [i \in 1..(Len(steps) - 1) |-> sum(SubSeq(gen_changes, 1, i))]

\* GenerationStrategy.model (the property): self._curr.model_spec._fitted_model,
\* the fitted model of the current step's model spec (the step it was fitted
\* for), or None.
current_model == IF curr \in fitted THEN Some(curr) ELSE None

\* The call returns to its caller, who now holds the generator runs it returned.
Return ==
    /\ ~Idle
    /\ pending' = pending \o last.returned
    /\ last' = NoLast
    /\ UNCHANGED <<steps, curr, generator_runs, experiment, model, fitted, seen,
                   trials, search_space, criteria_met, completed, node_call, node>>

\* ------------------------------------------------------------ the experiment
\* The caller makes the oldest generator run it holds into a trial.
AttachTrial ==
    /\ Idle
    /\ pending # <<>>
    /\ trials' = Append(trials, [step |-> Head(pending).step, status |-> CANDIDATE,
                                 arms |-> Head(pending).arms])
    /\ pending' = Tail(pending)
    /\ UNCHANGED <<steps, curr, generator_runs, experiment, model, fitted, seen,
                   search_space, criteria_met, last, completed, node_call, node>>

\* The caller never makes the oldest generator run it holds into a trial.
DropRun ==
    /\ Idle
    /\ pending # <<>>
    /\ pending' = Tail(pending)
    /\ UNCHANGED <<steps, curr, generator_runs, experiment, model, fitted, seen,
                   trials, search_space, criteria_met, last, completed, node_call, node>>

\* The trial lifecycle: a candidate is run or abandoned; a running trial is
\* completed, stopped early, failed or abandoned; the other statuses are final.
NextStatus(status) ==
    CASE status = CANDIDATE -> {RUNNING, ABANDONED}
      [] status = RUNNING -> {COMPLETED, EARLY_STOPPED, FAILED, ABANDONED}
      [] OTHER -> {}

TrialStatusChange ==
    /\ Idle
    /\ \E t \in 1..Len(trials) : \E status \in NextStatus(trials[t].status) :
        /\ trials' = [trials EXCEPT ![t].status = status]
        /\ UNCHANGED <<steps, curr, generator_runs, experiment, model, fitted, seen,
                       search_space, pending, criteria_met, last, completed, node_call, node>>

\* A completion criterion's verdict on the experiment changes.
CriteriaChange ==
    /\ Idle
    /\ \E i \in 1..Len(steps) : \E j \in 1..steps[i].completion_criteria :
        criteria_met' = IF j \in criteria_met THEN criteria_met \ {j}
                        ELSE criteria_met \cup {j}
    /\ UNCHANGED <<steps, curr, generator_runs, experiment, model, fitted, seen,
                   trials, search_space, pending, last, completed, node_call, node>>

\* ------------------------------------------------------------ specification
\* GenerationStrategy.__init__ on a valid list of steps; an experiment with no
\* trials yet.
Init ==
    /\ steps \in Strategies
    /\ curr = 0
    /\ generator_runs = <<>>
    /\ experiment = None
    /\ model = None
    /\ fitted = {}
    /\ seen = None
    /\ trials = <<>>
    /\ search_space = {"a"}
    /\ pending = <<>>
    /\ criteria_met = {}
    /\ last = NoLast
    /\ completed = FALSE
    /\ node_call = NoNodeCall
    /\ node = NoNode

Next ==
    \/ Gen
    \/ GenMultiple
    \/ Probe
    \/ Return
    \/ AttachTrial
    \/ DropRun
    \/ TrialStatusChange
    \/ CriteriaChange

Spec == Init /\ [][Next]_vars

\* The caller makes every generator run it was given into a trial before it
\* calls gen or _gen_multiple again (the NOTE of gen's docstring), and drops none.
CallerHoldsNoRun == pending = <<>>

NextPrompt ==
    \/ CallerHoldsNoRun /\ Gen
    \/ CallerHoldsNoRun /\ GenMultiple
    \/ Probe
    \/ Return
    \/ AttachTrial
    \/ TrialStatusChange
    \/ CriteriaChange

SpecPrompt == Init /\ [][NextPrompt]_vars

\* The caller also starts every trial before it calls gen or _gen_multiple
\* again, so that no trial is a candidate during a call.
CallerStartedAllTrials ==
    CallerHoldsNoRun /\ trial_indices_by_status(CANDIDATE) = {}

NextStarted ==
    \/ CallerStartedAllTrials /\ Gen
    \/ CallerStartedAllTrials /\ GenMultiple
    \/ Probe
    \/ Return
    \/ AttachTrial
    \/ TrialStatusChange
    \/ CriteriaChange

SpecStarted == Init /\ [][NextStarted]_vars

\* Strategies with a deduplicating step, on an experiment whose model can
\* propose two arms.
DedupStrategies ==
    {with_index(cs) : cs \in
        {<<deduplicating(GenerationStep(-1, 0, None, FALSE, TRUE, 0))>>,
         <<deduplicating(GenerationStep(1, 0, None, FALSE, TRUE, 0)),
           GenerationStep(-1, 0, None, FALSE, TRUE, 0)>>}}

InitDedup ==
    /\ steps \in DedupStrategies
    /\ curr = 0
    /\ generator_runs = <<>>
    /\ experiment = None
    /\ model = None
    /\ fitted = {}
    /\ seen = None
    /\ trials = <<>>
    /\ search_space = {"a", "b"}
    /\ pending = <<>>
    /\ criteria_met = {}
    /\ last = NoLast
    /\ completed = FALSE
    /\ node_call = NoNodeCall
    /\ node = NoNode

\* The caller passes the one experiment and no data, and the model never
\* requires more data: what the model proposes is all that varies in a call.
DedupGen ==
    /\ Idle
    /\ \E draws \in StepModelDraws : GenCall("gen", Experiment("exp", 1), 1, None, 1, draws)

DedupGenMultiple ==
    /\ Idle
    /\ \E m \in 1..MaxRuns, draws \in StepModelDraws :
        GenCall("_gen_multiple", Experiment("exp", 1), m, None, m, draws)

NextDedup ==
    \/ DedupGen
    \/ DedupGenMultiple
    \/ Return
    \/ AttachTrial
    \/ TrialStatusChange

SpecDedup == InitDedup /\ [][NextDedup]_vars

\* The caller passes any of the three Experiment objects, no data, and the
\* model never requires more data.
BindStrategies ==
    {with_index(cs) : cs \in
        {<<GenerationStep(2, 0, None, FALSE, TRUE, 0)>>,
         <<GenerationStep(1, 0, None, FALSE, TRUE, 0),
           GenerationStep(-1, 0, None, FALSE, TRUE, 0)>>}}

InitBind ==
    /\ steps \in BindStrategies
    /\ curr = 0
    /\ generator_runs = <<>>
    /\ experiment = None
    /\ model = None
    /\ fitted = {}
    /\ seen = None
    /\ trials = <<>>
    /\ search_space = {"a"}
    /\ pending = <<>>
    /\ criteria_met = {}
    /\ last = NoLast
    /\ completed = FALSE
    /\ node_call = NoNodeCall
    /\ node = NoNode

BindGen ==
    /\ Idle
    /\ \E e \in Experiments \cup {ReloadedExperiment}, draws \in StepModelDraws :
        GenCall("gen", e, 1, None, 1, draws)

BindGenMultiple ==
    /\ Idle
    /\ \E e \in Experiments \cup {ReloadedExperiment}, m \in 1..MaxRuns,
          draws \in StepModelDraws :
        GenCall("_gen_multiple", e, m, None, m, draws)

NextBind ==
    \/ BindGen
    \/ BindGenMultiple
    \/ Return
    \/ AttachTrial
    \/ TrialStatusChange

SpecBind == InitBind /\ [][NextBind]_vars

\* GenerationNode.gen called on its own, on a node whose model proposes arms of
\* NodeArms: should_deduplicate, the signature map (absent, empty, or holding
\* arm "a"), max_gen_draws_for_deduplication, and what the model proposes.
NodeArms == {"a", "b"}

NodeCalls ==
    {[state |-> "called", should_deduplicate |-> b,
      arms_by_signature_for_deduplication |-> g,
      max_gen_draws_for_deduplication |-> mx, draws |-> d,
      exc |-> "", arms |-> {}, n_gen_draws |-> 0] :
        b \in BOOLEAN, g \in {None, Some({}), Some({"a"})},
        mx \in 0..(MAX_GEN_DRAWS + 1),
        d \in ModelDraws(NodeArms, 0..(MAX_GEN_DRAWS + 1))}

NodeGen ==
    /\ node_call.state = "called"
    /\ \E r \in {node_gen(node_call.should_deduplicate,
                          node_call.arms_by_signature_for_deduplication,
                          node_call.max_gen_draws_for_deduplication,
                          node_call.draws, 0)} :
        node_call' = [node_call EXCEPT !.state = "returned", !.exc = r.exc,
                                       !.arms = r.arms,
                                       !.n_gen_draws = r.n_gen_draws]
    /\ UNCHANGED <<steps, curr, generator_runs, experiment, model, fitted, seen,
                   trials, search_space, pending, criteria_met, last, completed, node>>

InitNodeGen ==
    /\ steps = <<>>
    /\ curr = 0
    /\ generator_runs = <<>>
    /\ experiment = None
    /\ model = None
    /\ fitted = {}
    /\ seen = None
    /\ trials = <<>>
    /\ search_space = NodeArms
    /\ pending = <<>>
    /\ criteria_met = {}
    /\ last = NoLast
    /\ completed = FALSE
    /\ node_call \in NodeCalls
    /\ node = NoNode

SpecNodeGen == InitNodeGen /\ [][NodeGen]_vars

\* A variant of clone_reset that copies the strategy with its state.
clone_with_state ==
    [steps |-> steps, curr |-> curr, generator_runs |-> generator_runs,
     experiment |-> experiment, model |-> model, seen |-> seen]

\* GenerationStrategy.clone_reset: GenerationStrategy(steps=deepcopy(self._steps)),
\* the fields of the new strategy.  __init__ numbers the copied steps again and
\* sets the fields it sets; _experiment and _model have their class defaults.
clone_reset ==
    [steps |-> with_index(steps), curr |-> 0, generator_runs |-> <<>>,
     experiment |-> None, model |-> None, seen |-> None]

\* The caller replaces the strategy by its clone_reset().  The copied steps keep
\* the fitted models of their model specs (deepcopy); the experiment and what
\* the caller holds are as they were.
CloneReset ==
    /\ Idle
    /\ init_ok(steps)
    /\ \E r \in {clone_reset} :
        /\ steps' = r.steps
        /\ curr' = r.curr
        /\ generator_runs' = r.generator_runs
        /\ experiment' = r.experiment
        /\ model' = r.model
        /\ seen' = r.seen
    /\ completed' = FALSE
    /\ last' = Last("clone_reset", 0, "done", "", FALSE, "nothing", {}, <<>>, <<>>,
                    NoLoop, None, None)
    /\ UNCHANGED <<fitted, trials, search_space, pending, criteria_met, node_call, node>>

\* The strategies of Init and the deduplicating ones, each followed until it is
\* cloned: the clone is what the behaviour ends with.
InitClone ==
    /\ steps \in Strategies \cup DedupStrategies
    /\ curr = 0
    /\ generator_runs = <<>>
    /\ experiment = None
    /\ model = None
    /\ fitted = {}
    /\ seen = None
    /\ trials = <<>>
    /\ search_space = {"a"}
    /\ pending = <<>>
    /\ criteria_met = {}
    /\ last = NoLast
    /\ completed = FALSE
    /\ node_call = NoNodeCall
    /\ node = NoNode

CloneTaken == last.op = "clone_reset"

NextClone ==
    \/ DedupGen
    \/ DedupGenMultiple
    \/ ~CloneTaken /\ Return
    \/ AttachTrial
    \/ TrialStatusChange
    \/ CriteriaChange
    \/ CloneReset

SpecClone == InitClone /\ [][NextClone]_vars

\* GenerationStrategy(steps=cs): the lists of steps a caller may pass, valid or
\* not, of up to two steps.
CandidateSteps ==
    {GenerationStep(n, 0, p, FALSE, TRUE, c) :
        n \in {-2, -1, 0, 1}, p \in {None, Some(0), Some(1)}, c \in {0, 1}}

CandidateStepLists ==
    {<<>>} \cup {<<c>> : c \in CandidateSteps}
           \cup {<<c, d>> : c \in CandidateSteps, d \in CandidateSteps}

\* GenerationStrategy.__init__: the exception raised (or "") and the steps as
\* the loop leaves them: the steps before the first one that fails a check have
\* been numbered.  An empty list passes the loop and fails at steps[0].
first_failing_step(cs) ==
    IF init_ok(cs) THEN Len(cs) + 1
    ELSE CHOOSE i \in 1..Len(cs) : ~step_ok(cs, i) /\ \A j \in 1..(i - 1) : step_ok(cs, j)

strategy_init(cs) ==
    [exc |-> IF ~init_ok(cs) THEN "UserInputError"
             ELSE IF cs = <<>> THEN "IndexError" ELSE "",
     steps |-> [i \in 1..Len(cs) |->
                  IF i < first_failing_step(cs) THEN with_index(cs)[i] ELSE cs[i]]]

\* One call of GenerationStrategy(steps=steps) on the list of steps.  The
\* strategy has a current step only when the call returns.
Construct ==
    /\ last.op = "none"
    /\ curr = -1
    /\ \E r \in {strategy_init(steps)} :
        /\ steps' = r.steps
        /\ curr' = IF r.exc = "" THEN 0 ELSE curr
        /\ last' = Last("__init__", 0, "done", r.exc, FALSE, "nothing", {}, <<>>,
                        <<>>, NoLoop, None, None)
    /\ UNCHANGED <<generator_runs, experiment, model, fitted, seen, trials,
                   search_space, pending, criteria_met, completed, node_call, node>>

InitConstruct ==
    /\ steps \in CandidateStepLists
    /\ curr = -1
    /\ generator_runs = <<>>
    /\ experiment = None
    /\ model = None
    /\ fitted = {}
    /\ seen = None
    /\ trials = <<>>
    /\ search_space = {"a"}
    /\ pending = <<>>
    /\ criteria_met = {}
    /\ last = NoLast
    /\ completed = FALSE
    /\ node_call = NoNodeCall
    /\ node = NoNode

SpecConstruct == InitConstruct /\ [][Construct]_vars

\* Strategies whose steps all have finite budgets, with a caller who makes every
\* run into a trial before calling gen again and keeps calling gen, and trials
\* that all run and complete.
LiveStrategies ==
    {with_index(cs) : cs \in
        {<<GenerationStep(1, 0, None, FALSE, TRUE, 0)>>,
         <<GenerationStep(2, 1, None, FALSE, TRUE, 0)>>,
         <<GenerationStep(1, 1, None, FALSE, FALSE, 0)>>,
         <<GenerationStep(2, 0, Some(1), FALSE, TRUE, 0)>>,
         <<GenerationStep(1, 1, None, FALSE, TRUE, 0),
           GenerationStep(1, 0, None, FALSE, TRUE, 0)>>,
         <<GenerationStep(1, 0, None, FALSE, TRUE, 0),
           GenerationStep(1, 1, None, TRUE, TRUE, 0)>>}}

InitLive ==
    /\ steps \in LiveStrategies
    /\ curr = 0
    /\ generator_runs = <<>>
    /\ experiment = None
    /\ model = None
    /\ fitted = {}
    /\ seen = None
    /\ trials = <<>>
    /\ search_space = {"a"}
    /\ pending = <<>>
    /\ criteria_met = {}
    /\ last = NoLast
    /\ completed = FALSE
    /\ node_call = NoNodeCall
    /\ node = NoNode

\* A candidate trial is run, a running trial completes.
TrialAdvance ==
    /\ Idle
    /\ \E t \in 1..Len(trials) :
        /\ trials[t].status \in {CANDIDATE, RUNNING}
        /\ trials' = [trials EXCEPT ![t].status =
                        IF trials[t].status = CANDIDATE THEN RUNNING ELSE COMPLETED]
    /\ UNCHANGED <<steps, curr, generator_runs, experiment, model, fitted, seen,
                   search_space, pending, criteria_met, last, completed, node_call, node>>

LiveGen == CallerHoldsNoRun /\ DedupGen

NextLive ==
    \/ LiveGen
    \/ Return
    \/ AttachTrial
    \/ TrialAdvance

\* The caller keeps calling gen and takes what each call returns, makes every
\* run it holds into a trial, and every trial keeps advancing.
SpecLive ==
    /\ InitLive /\ [][NextLive]_vars
    /\ SF_vars(LiveGen) /\ WF_vars(Return)
    /\ SF_vars(AttachTrial) /\ SF_vars(TrialAdvance)

\* Strategies in which a step with a completion criterion follows another step,
\* probed and asked for runs by a caller who passes the one experiment and no
\* data, and whose model never requires more data.
ProbeStrategies ==
    {with_index(cs) : cs \in
        {<<GenerationStep(1, 1, None, FALSE, TRUE, 0),
           GenerationStep(-1, 0, None, FALSE, TRUE, 1)>>,
         <<GenerationStep(-1, 0, None, FALSE, TRUE, 1),
           GenerationStep(-1, 0, None, FALSE, TRUE, 1),
           GenerationStep(-1, 0, None, FALSE, TRUE, 0)>>,
         <<GenerationStep(1, 0, None, FALSE, TRUE, 0),
           GenerationStep(1, 0, None, FALSE, TRUE, 0)>>}}

InitProbe ==
    /\ steps \in ProbeStrategies
    /\ curr = 0
    /\ generator_runs = <<>>
    /\ experiment = None
    /\ model = None
    /\ fitted = {}
    /\ seen = None
    /\ trials = <<>>
    /\ search_space = {"a"}
    /\ pending = <<>>
    /\ criteria_met = {}
    /\ last = NoLast
    /\ completed = FALSE
    /\ node_call = NoNodeCall
    /\ node = NoNode

NextProbe ==
    \/ DedupGen
    \/ DedupGenMultiple
    \/ Probe
    \/ Return
    \/ AttachTrial
    \/ TrialStatusChange
    \/ CriteriaChange

SpecProbe == InitProbe /\ [][NextProbe]_vars

\* GenerationStep.num_trials_to_gen_and_complete called on its own, on a step of
\* a two-step strategy whose experiment holds any trials of the two steps in any
\* statuses.
CountedSteps ==
    {GenerationStep(n, o, None, FALSE, FALSE, 0) : n \in {-1, 1, 2}, o \in {0, 1, 2}}

CountStrategies ==
    {with_index(<<c, GenerationStep(-1, 0, None, FALSE, TRUE, 0)>>) : c \in CountedSteps}
    \cup {with_index(<<GenerationStep(1, 0, None, FALSE, TRUE, 0), c>>) : c \in CountedSteps}

TrialsOfLen(n) ==
    [1..n -> [step : {0, 1}, status : TrialStatus, arms : {{"a"}}]]

ExperimentTrials == UNION {TrialsOfLen(n) : n \in 0..MaxRuns}

CountTrials ==
    /\ node_call.state = "counting"
    /\ node_call' =
         [node_call EXCEPT
            !.state = "counted",
            !.result = num_trials_to_gen_and_complete(steps[node_call.step + 1])]
    /\ UNCHANGED <<steps, curr, generator_runs, experiment, model, fitted, seen,
                   trials, search_space, pending, criteria_met, last, completed, node>>

InitCount ==
    /\ steps \in CountStrategies
    /\ curr = 0
    /\ generator_runs = <<>>
    /\ experiment = Some(Experiment("exp", 1))
    /\ model = None
    /\ fitted = {}
    /\ seen = None
    /\ trials \in ExperimentTrials
    /\ search_space = {"a"}
    /\ pending = <<>>
    /\ criteria_met = {}
    /\ last = NoLast
    /\ completed = FALSE
    /\ node_call \in {[state |-> "counting", step |-> i, result |-> <<>>] : i \in {0, 1}}
    /\ node = NoNode

SpecCount == InitCount /\ [][CountTrials]_vars

\* GenerationStep(num_trials=..., min_trials_observed=..., enforce_num_trials=...)
\* called on its own, with a model of the registry: the arguments of the check
\* of __post_init__.
StepArguments ==
    {[state |-> "init", num_trials |-> n, min_trials_observed |-> o,
      enforce_num_trials |-> e, exc |-> ""] :
        n \in -1..4, o \in 0..5, e \in BOOLEAN}

\* GenerationStep.__post_init__
StepPostInit ==
    /\ node_call.state = "init"
    /\ node_call' =
         [node_call EXCEPT
            !.state = "made",
            !.exc = IF post_init_ok(node_call.num_trials, node_call.min_trials_observed,
                                    node_call.enforce_num_trials)
                    THEN "" ELSE "UserInputError"]
    /\ UNCHANGED <<steps, curr, generator_runs, experiment, model, fitted, seen,
                   trials, search_space, pending, criteria_met, last, completed, node>>

InitStep ==
    /\ steps = <<>>
    /\ curr = 0
    /\ generator_runs = <<>>
    /\ experiment = None
    /\ model = None
    /\ fitted = {}
    /\ seen = None
    /\ trials = <<>>
    /\ search_space = {"a"}
    /\ pending = <<>>
    /\ criteria_met = {}
    /\ last = NoLast
    /\ completed = FALSE
    /\ node_call \in StepArguments
    /\ node = NoNode

SpecStep == InitStep /\ [][StepPostInit]_vars

\* Strategies of two steps with finite budgets, followed one generator run
\* further than the others by a caller who passes the one experiment and no
\* data, makes every run into a trial before asking again, and whose model
\* never requires more data.
TransitionStrategies ==
    {with_index(<<c, GenerationStep(1, 0, None, FALSE, TRUE, 0)>>) :
        c \in {GenerationStep(1, o, None, FALSE, e, 0) : o \in {0, 1}, e \in BOOLEAN}}

InitTransitions ==
    /\ steps \in TransitionStrategies
    /\ curr = 0
    /\ generator_runs = <<>>
    /\ experiment = None
    /\ model = None
    /\ fitted = {}
    /\ seen = None
    /\ trials = <<>>
    /\ search_space = {"a"}
    /\ pending = <<>>
    /\ criteria_met = {}
    /\ last = NoLast
    /\ completed = FALSE
    /\ node_call = NoNodeCall
    /\ node = NoNode

TransitionGen ==
    /\ Idle
    /\ CallerHoldsNoRun
    /\ \E draws \in StepModelDraws :
        GenCallWithin("gen", Experiment("exp", 1), 1, None, 1, draws, MaxRuns + 1)

TransitionGenMultiple ==
    /\ Idle
    /\ CallerHoldsNoRun
    /\ \E m \in 1..MaxRuns, draws \in StepModelDraws :
        GenCallWithin("_gen_multiple", Experiment("exp", 1), m, None, m, draws,
                      MaxRuns + 1)

NextTransitions ==
    \/ TransitionGen
    \/ TransitionGenMultiple
    \/ Return
    \/ AttachTrial
    \/ TrialStatusChange

SpecTransitions == InitTransitions /\ [][NextTransitions]_vars

\* ------------------------------------------------- GenerationNode on its own
\* A GenerationNode of one to three model specs, with or without a
\* best_model_selector: the specs that hold a fitted model, the cached
\* _model_spec_to_gen_from, and what the node has done since its last fit call
\* (the uses made of it, the selections completed, the rounds of
\* cross-validation, the specs its gen calls generated from).
GenerationNode(model_specs, best_model_selector) ==
    [model_specs |-> model_specs, best_model_selector |-> best_model_selector,
     fitted |-> {}, model_spec_to_gen_from |-> None,
     fits |-> 0, fit_ok |-> FALSE, uses |-> 0, picks |-> 0,
     cross_validations |-> 0, generated_from |-> {}, exc |-> ""]

Nodes == {GenerationNode(n, b) : n \in 1..3, b \in BOOLEAN}

\* A variant of node_fit that clears the cached spec once every spec is fitted.
node_fit_clearing_last(nd, fail_at) ==
    [nd EXCEPT
        !.model_spec_to_gen_from = IF fail_at > nd.model_specs THEN None ELSE @,
        !.fitted = @ \cup 1..(fail_at - 1),
        !.fits = @ + 1,
        !.fit_ok = fail_at > nd.model_specs,
        !.uses = 0, !.picks = 0, !.cross_validations = 0, !.generated_from = {},
        !.exc = IF fail_at > nd.model_specs THEN "" ELSE "fit"]

\* GenerationNode.fit: clears the cached spec, then fits the specs in order; the
\* fit of the spec at fail_at raises (none does if fail_at > model_specs), and
\* the exception propagates.
node_fit(nd, fail_at) ==
    [nd EXCEPT
        !.model_spec_to_gen_from = None,
        !.fitted = @ \cup 1..(fail_at - 1),
        !.fits = @ + 1,
        !.fit_ok = fail_at > nd.model_specs,
        !.uses = 0, !.picks = 0, !.cross_validations = 0, !.generated_from = {},
        !.exc = IF fail_at > nd.model_specs THEN "" ELSE "fit"]

\* GenerationNode._pick_fitted_model_to_gen_from: the exception raised (or ""),
\* the spec picked, and whether cross-validation was run.  The selector picks
\* the spec `best`.  ModelSpec.cross_validate must be invoked only after fit:
\* it raises on a spec with no fitted model.
pick_fitted_model_to_gen_from(nd, best) ==
    IF ~nd.best_model_selector
    THEN IF nd.model_specs # 1
         THEN [exc |-> "NotImplementedError", spec |-> 0, cross_validated |-> FALSE]
         ELSE [exc |-> "", spec |-> 1, cross_validated |-> FALSE]
    ELSE IF (1..nd.model_specs) \subseteq nd.fitted
    THEN [exc |-> "", spec |-> best, cross_validated |-> TRUE]
    ELSE [exc |-> "cross_validate", spec |-> 0, cross_validated |-> 1 \in nd.fitted]

\* GenerationNode.model_spec_to_gen_from (the property): the spec it returns (0
\* when it raises) and the node it leaves.
model_spec_to_gen_from(nd, best) ==
    IF nd.model_spec_to_gen_from # None
    THEN [spec |-> Val(nd.model_spec_to_gen_from),
          node |-> [nd EXCEPT !.uses = @ + 1, !.exc = ""]]
    ELSE LET r == pick_fitted_model_to_gen_from(nd, best)
         IN  [spec |-> r.spec,
              node |-> [nd EXCEPT
                  !.model_spec_to_gen_from = IF r.exc = "" THEN Some(r.spec) ELSE None,
                  !.uses = @ + 1,
                  !.picks = IF r.exc = "" THEN @ + 1 ELSE @,
                  !.cross_validations = IF r.cross_validated THEN @ + 1 ELSE @,
                  !.exc = r.exc]]

\* GenerationNode.fit
NodeFit ==
    /\ node.model_specs > 0
    /\ node.fits < MaxFits
    /\ \E fail_at \in 1..(node.model_specs + 1) : node' = node_fit(node, fail_at)
    /\ UNCHANGED <<steps, curr, generator_runs, experiment, model, fitted, seen, trials,
                   search_space, pending, criteria_met, last, completed, node_call>>

\* A read of one of the properties that go through model_spec_to_gen_from
\* (model_enum, fitted_model, diagnostics, ...).
NodeRead ==
    /\ node.model_specs > 0
    /\ node.uses < MaxRuns
    /\ \E best \in 1..node.model_specs : node' = model_spec_to_gen_from(node, best).node
    /\ UNCHANGED <<steps, curr, generator_runs, experiment, model, fitted, seen, trials,
                   search_space, pending, criteria_met, last, completed, node_call>>

\* GenerationNode.gen on a node whose models have been fit: it generates from
\* the spec that model_spec_to_gen_from returns.
NodeGenerate ==
    /\ node.model_specs > 0
    /\ node.fit_ok
    /\ node.uses < MaxRuns
    /\ \E best \in 1..node.model_specs :
        \E r \in {model_spec_to_gen_from(node, best)} :
            node' = IF r.node.exc = ""
                    THEN [r.node EXCEPT !.generated_from = @ \cup {r.spec}]
                    ELSE r.node
    /\ UNCHANGED <<steps, curr, generator_runs, experiment, model, fitted, seen, trials,
                   search_space, pending, criteria_met, last, completed, node_call>>

InitNode ==
    /\ steps = <<>>
    /\ curr = 0
    /\ generator_runs = <<>>
    /\ experiment = None
    /\ model = None
    /\ fitted = {}
    /\ seen = None
    /\ trials = <<>>
    /\ search_space = {"a"}
    /\ pending = <<>>
    /\ criteria_met = {}
    /\ last = NoLast
    /\ completed = FALSE
    /\ node_call = NoNodeCall
    /\ node \in Nodes

NextNode ==
    \/ NodeFit
    \/ NodeRead
    \/ NodeGenerate

SpecNode == InitNode /\ [][NextNode]_vars

\* ==================================================================== claims
\* The trials that carry step index i, and how many of them have a status in S.
TrialsOfStep(i) == {t \in 1..Len(trials) : trials[t].step = i}
CountOfStep(i, S) == Cardinality({t \in TrialsOfStep(i) : trials[t].status \in S})
NotLost == TrialStatus \ {FAILED, ABANDONED}
Observed == {COMPLETED, EARLY_STOPPED}

\* l is the record of a gen or _gen_multiple call.
IsGenCall(l) == l.op \in {"gen", "_gen_multiple"}

\* l is the record of a gen or _gen_multiple call that reached the transition
\* (the experiment setter accepted the experiment).
ReachedTransition(l) == IsGenCall(l) /\ l.stage # "bind"

\* C1: over every step of the system (gen, _gen_multiple,
\* current_generator_run_limit, and the changes of the experiment's trials) the
\* index of the current step never decreases.
C1_CurrentStepNeverDecreases == [][curr' >= curr]_vars

\* A call has just moved the strategy from step 0 to step 1.
C1_Witness == curr = 1 /\ last.moved

\* C2: a gen or _gen_multiple call keeps the history it found and only adds to
\* its end; the runs it returns are the runs it added, in the same order; and
\* every returned run carries the index of the current step as it stands after
\* the call's transition.
C2_ReturnedRunsRecorded ==
    [][(Idle /\ IsGenCall(last')) =>
        /\ Len(generator_runs') >= Len(generator_runs)
        /\ SubSeq(generator_runs', 1, Len(generator_runs)) = generator_runs
        /\ last'.exc = "" =>
             generator_runs' = generator_runs \o last'.returned
        /\ last'.exc # "" => last'.returned = <<>>
        /\ \A i \in 1..Len(last'.returned) : last'.returned[i].step = curr']_vars

\* A _gen_multiple call has moved to the next step and returned two runs.
C2_Witness ==
    last.op = "_gen_multiple" /\ last.moved /\ Len(last.returned) = 2

\* C3: a gen call that reaches the transition raises the transition's
\* DataRequiredError exactly when the current step has a finite budget, enforces
\* it, has at least num_trials trials that are not FAILED or ABANDONED, and has
\* fewer than min_trials_observed trials that are COMPLETED or EARLY_STOPPED; and
\* then the current step, the history, the model and the snapshot are unchanged.
DataRequiredCase ==
    /\ steps[curr + 1].num_trials # -1
    /\ steps[curr + 1].enforce_num_trials
    /\ CountOfStep(curr, NotLost) >= steps[curr + 1].num_trials
    /\ CountOfStep(curr, Observed) < steps[curr + 1].min_trials_observed

RaisedDataRequired(l) == l.stage = "move" /\ l.exc = "DataRequiredError"

C3_DataRequiredExactlyWhen ==
    [][(Idle /\ ReachedTransition(last')) =>
        /\ RaisedDataRequired(last') <=> DataRequiredCase
        /\ RaisedDataRequired(last') =>
             UNCHANGED <<curr, generator_runs, model, fitted, seen>>]_vars

\* A gen call has raised the transition's DataRequiredError.
C3_Witness == IsGenCall(last) /\ RaisedDataRequired(last)

\* C4: when a gen call reaches the transition with a finite-budget current step
\* i that has nothing left to generate and nothing left to complete, then if i
\* is the last step the call raises GenerationStrategyCompleted and produces no
\* run, and otherwise the current step becomes i + 1, the model of step i is
\* gone (the call leaves no model or the model fitted for step i + 1, and makes
\* no update), and the runs the call produces carry i + 1.
NothingLeftCase ==
    /\ steps[curr + 1].num_trials # -1
    /\ CountOfStep(curr, NotLost) >= steps[curr + 1].num_trials
    /\ CountOfStep(curr, Observed) >= steps[curr + 1].min_trials_observed

C4_CompleteOrAdvance ==
    [][(Idle /\ ReachedTransition(last') /\ NothingLeftCase) =>
        IF curr + 1 = Len(steps)
        THEN /\ last'.exc = "GenerationStrategyCompleted"
             /\ last'.returned = <<>>
             /\ UNCHANGED <<curr, generator_runs>>
        ELSE /\ curr' = curr + 1
             /\ model' \in {None, Some(curr + 1)}
             /\ last'.fit # "update"
             /\ \A i \in (Len(generator_runs) + 1)..Len(generator_runs') :
                    generator_runs'[i].step = curr + 1]_vars

\* A gen call has left a finite-budget step and returned a run of the next step.
C4_Witness ==
    /\ IsGenCall(last) /\ last.moved /\ last.returned # <<>>
    /\ steps[curr].num_trials # -1

\* C5: once a gen call has raised GenerationStrategyCompleted, every later gen
\* call that reaches the transition raises it too and produces no run, whatever
\* happened to the trials in between.  Stated for the strategies whose steps end
\* on their budget, where the trials are all that changes between two calls.
EndsOnBudget == \A i \in 1..Len(steps) : steps[i].completion_criteria = 0

C5_CompletionIsPermanent ==
    (EndsOnBudget /\ completed /\ ReachedTransition(last)) =>
        (last.exc = "GenerationStrategyCompleted" /\ last.returned = <<>>)

\* C6: in a strategy of one enforcing step with budget k and
\* min_trials_observed 0, whose caller makes every returned run a trial before
\* the next call and loses no trial to FAILED or ABANDONED, the history never
\* holds more than k runs, holds exactly k once a gen call has raised
\* GenerationStrategyCompleted, and holds only runs tagged with step 0, however
\* the requests were split over gen and _gen_multiple calls.
SingleEnforcingStep ==
    /\ Len(steps) = 1
    /\ steps[1].num_trials # -1
    /\ steps[1].enforce_num_trials
    /\ steps[1].min_trials_observed = 0

NoTrialLost == \A t \in 1..Len(trials) : trials[t].status \in NotLost

C6_ExactlyBudgetRuns ==
    (SingleEnforcingStep /\ NoTrialLost) =>
        /\ Len(generator_runs) <= steps[1].num_trials
        /\ completed => Len(generator_runs) = steps[1].num_trials
        /\ \A i \in 1..Len(generator_runs) : generator_runs[i].step = 0

\* A single enforcing step of budget 2 has been completed by calls to gen alone.
C6_Witness ==
    /\ SingleEnforcingStep /\ NoTrialLost /\ steps[1].num_trials = 2
    /\ last.op = "gen" /\ last.exc = "GenerationStrategyCompleted"
    /\ Len(generator_runs) = 2

\* C7: when the caller makes every returned run a trial before the next call,
\* a step that enforces a finite budget k never has more than k trials that
\* are neither FAILED nor ABANDONED.
C7_BudgetNeverExceeded ==
    \A i \in 1..Len(steps) :
        (steps[i].enforce_num_trials /\ steps[i].num_trials # -1) =>
            CountOfStep(i - 1, NotLost) <= steps[i].num_trials

\* An enforcing step has its budget in live trials and a lost trial besides:
\* the lost trial was replaced.
C7_Witness ==
    \E i \in 1..Len(steps) :
        /\ steps[i].enforce_num_trials /\ steps[i].num_trials # -1
        /\ CountOfStep(i - 1, NotLost) = steps[i].num_trials
        /\ CountOfStep(i - 1, {FAILED, ABANDONED}) > 0

\* Step i (counted from 1) runs exactly as many trials as its max_parallelism.
AtCap(i) ==
    /\ steps[i].max_parallelism # None
    /\ CountOfStep(i - 1, {RUNNING}) = Val(steps[i].max_parallelism)

\* C8: when the caller makes every returned run a trial and starts it before
\* the next call, a step with max_parallelism c never has more than c RUNNING
\* trials.
C8_ParallelismNeverExceeded ==
    \A i \in 1..Len(steps) :
        steps[i].max_parallelism # None =>
            CountOfStep(i - 1, {RUNNING}) <= Val(steps[i].max_parallelism)

\* A _gen_multiple call was refused because the step, which has other trials
\* that ended, runs as many trials as its max_parallelism allows.
C8_Witness ==
    /\ last.op = "_gen_multiple"
    /\ last.exc = "MaxParallelismReachedException"
    /\ AtCap(curr + 1)
    /\ Len(trials) > CountOfStep(curr, {RUNNING})

\* C9: for every step, with r its number of RUNNING trials:
\* num_remaining_trials_until_max_parallelism returns None when the step has no
\* max_parallelism; raises MaxParallelismReachedException with the step's index
\* and r when raising is asked for and r >= max_parallelism; and returns
\* max_parallelism - r otherwise.  And when a step at its cap loses a RUNNING
\* trial, the function returns a positive number in the state that follows.
RemainingAsDocumented(i, raise) ==
    LET s == steps[i]
        r == CountOfStep(i - 1, {RUNNING})
        res == num_remaining_trials_until_max_parallelism(s, raise)
    IN  IF s.max_parallelism = None
        THEN ~res.raised /\ res.value = None
        ELSE IF raise /\ r >= Val(s.max_parallelism)
        THEN res.raised /\ res.step_index = i - 1 /\ res.num_running = r
        ELSE ~res.raised /\ res.value = Some(Val(s.max_parallelism) - r)

PositiveAgain(i) ==
    \A raise \in BOOLEAN :
        LET res == num_remaining_trials_until_max_parallelism(steps[i], raise)
        IN  ~res.raised /\ res.value # None /\ Val(res.value) > 0

C9_RemainingParallelism ==
    /\ [](\A i \in 1..Len(steps) : \A raise \in BOOLEAN : RemainingAsDocumented(i, raise))
    /\ [][\A i \in 1..Len(steps) :
            (AtCap(i) /\ CountOfStep(i - 1, {RUNNING})' < CountOfStep(i - 1, {RUNNING}))
                => PositiveAgain(i)']_vars

\* A step with max_parallelism 1 was at its cap, had its RUNNING trial
\* complete, was given a second run, and a call is now refused at the cap.
C9_Witness ==
    /\ steps[curr + 1].max_parallelism = Some(1)
    /\ CountOfStep(curr, {COMPLETED}) = 1
    /\ AtCap(curr + 1)
    /\ last.exc = "MaxParallelismReachedException"

\* C10: a _gen_multiple call that asked for m runs and returned has returned at
\* most min(m, max_parallelism - running) runs when the step that is current
\* after its transition has a max_parallelism, and at most
\* min(m, num_trials - num_can_complete) runs when that step enforces a finite
\* budget, the counts being those of that step's trials.
C10_ReturnedRunsClamped ==
    [][(Idle /\ last'.op = "_gen_multiple" /\ last'.exc = "") =>
        LET s == steps[curr' + 1]
            m == last'.requested
            n == Len(last'.returned)
        IN  /\ n <= m
            /\ s.max_parallelism # None =>
                 n <= Min(m, Val(s.max_parallelism) - CountOfStep(curr', {RUNNING}))
            /\ (s.enforce_num_trials /\ s.num_trials # -1) =>
                 n <= Min(m, s.num_trials - CountOfStep(curr', NotLost))]_vars

\* A _gen_multiple call that asked for two runs has returned one.
C10_Witness ==
    /\ last.op = "_gen_multiple" /\ last.exc = ""
    /\ last.requested = 2 /\ Len(last.returned) = 1
    /\ steps[curr + 1].num_trials # -1 /\ steps[curr + 1].enforce_num_trials

\* C11: in a _gen_multiple call whose generation loop met a DataRequiredError of
\* the step's gen: at the first iteration the call raises DataRequiredError and
\* the history is as it was; at a later iteration i the call returns, without
\* an exception, the i runs produced before it, and the history has grown by
\* exactly those runs.
C11_DataRequiredInLoop ==
    [][(Idle /\ last'.op = "_gen_multiple" /\ last'.loop.failed_at >= 0) =>
        IF last'.loop.failed_at = 0
        THEN /\ last'.stage = "loop" /\ last'.exc = "DataRequiredError"
             /\ last'.returned = <<>>
             /\ generator_runs' = generator_runs
        ELSE /\ last'.exc = ""
             /\ Len(last'.returned) = last'.loop.failed_at
             /\ generator_runs' = generator_runs \o last'.returned]_vars

\* A _gen_multiple call asked for two runs has returned the one run it produced
\* before the model required data.
C11_Witness ==
    /\ last.op = "_gen_multiple" /\ last.requested = 2
    /\ last.loop.failed_at = 1
    /\ last.exc = "" /\ Len(last.returned) = 1

\* The n-th draw of the call of GenerationNode.gen proposed an arm whose
\* signature is in the map the call was given.
NodeDrawIsDuplicate(n) ==
    /\ node_call.arms_by_signature_for_deduplication # None
    /\ model_spec_gen(node_call.draws, n)
         \cap Val(node_call.arms_by_signature_for_deduplication) # {}

\* The call of GenerationNode.gen deduplicates: should_deduplicate is set and
\* the signature map is neither absent nor empty.
NodeDeduplicates ==
    /\ node_call.should_deduplicate
    /\ node_call.arms_by_signature_for_deduplication \notin {None, Some({})}

\* C12: with should_deduplicate=True and a model that proposes a known arm on
\* each of its first d draws and a unique arm on draw d + 1, for d = 5:
\* GenerationNode.gen raises GenerationStrategyRepeatedPoints when
\* max_gen_draws_for_deduplication = d, and returns the unique arm when
\* max_gen_draws_for_deduplication = d + 1.
C12_ExhaustedAtTheLimit ==
    (/\ node_call.state = "returned"
     /\ NodeDeduplicates
     /\ node_call.draws.k = MAX_GEN_DRAWS
     /\ NodeDrawIsDuplicate(MAX_GEN_DRAWS)
     /\ ~NodeDrawIsDuplicate(MAX_GEN_DRAWS + 1)) =>
        /\ node_call.max_gen_draws_for_deduplication = MAX_GEN_DRAWS =>
             node_call.exc = "GenerationStrategyRepeatedPoints"
        /\ node_call.max_gen_draws_for_deduplication = MAX_GEN_DRAWS + 1 =>
             (node_call.exc = "" /\ node_call.arms = node_call.draws.rest)

C14_NoKnownArmReturned ==
    [][(Idle /\ IsGenCall(last') /\ steps[curr' + 1].should_deduplicate) =>
        /\ \A i \in 1..Len(last'.returned) :
              last'.returned[i].arms \cap arms_by_signature = {}
        /\ \A i \in (Len(generator_runs) + 1)..Len(generator_runs') :
              generator_runs'[i].arms \cap arms_by_signature = {}]_vars

\* A gen call on a deduplicating step has made more than one draw: it discarded
\* a run with a known arm and returned a run with none.
C14_Witness ==
    /\ last.op = "gen" /\ last.exc = ""
    /\ steps[curr + 1].should_deduplicate
    /\ Len(last.returned) = 1
    /\ last.loop.n_gen_draws > 1
    /\ arms_by_signature # {}
    /\ last.returned[1].arms \cap arms_by_signature = {}

\* C15: a gen call without passed-in data that reaches the fit with the model of
\* the current step already set, on a step with use_update=True, does not fit;
\* with D the trials COMPLETED now and not COMPLETED in the snapshot of the
\* previous fit-or-update, it makes one update with the data of exactly D when D
\* is not empty, and neither a fit nor an update when D is empty; and it takes
\* the snapshot anew.
CompletedSinceSnapshot ==
    {t \in 0..(Len(trials) - 1) : trials[t + 1].status = COMPLETED}
        \ (IF seen = None THEN {} ELSE Val(seen))

C15_UpdateWithNewTrialsOnly ==
    [][(/\ Idle /\ IsGenCall(last')
        /\ last'.stage \notin {"bind", "move"}
        /\ ~last'.moved
        /\ model # None
        /\ steps[curr + 1].use_update
        /\ last'.passed_in_data = None) =>
        /\ last'.fit # "fit"
        /\ model' = model /\ fitted' = fitted
        /\ IF CompletedSinceSnapshot = {}
           THEN last'.fit = "nothing"
           ELSE last'.fit = "update" /\ last'.data = CompletedSinceSnapshot
        /\ seen' = Some({t \in 0..(Len(trials) - 1) : trials[t + 1].status = COMPLETED})]_vars

\* A gen call has updated the model with the data of one trial while two
\* trials are COMPLETED.
C15_Witness ==
    /\ last.op = "gen" /\ last.passed_in_data = None
    /\ last.fit = "update"
    /\ Cardinality(last.data) = 1
    /\ Cardinality(trial_indices_by_status(COMPLETED)) = 2

\* C16: a gen, _gen_multiple or current_generator_run_limit call that reaches
\* the transition on a current step i with num_trials = -1: with completion
\* criteria of which at least one is not met, stays at step i and does not
\* report completion; with completion criteria that are all met, moves to step
\* i + 1, or reports completion when step i is the last; with no completion
\* criteria, stays at step i and does not report completion.
MadeTransition(l) ==
    \/ ReachedTransition(l)
    \/ l.op = "current_generator_run_limit" /\ l.exc # "ValueError"

ReportsCompletion(l) ==
    \/ IsGenCall(l) /\ l.exc = "GenerationStrategyCompleted"
    \/ l.op = "current_generator_run_limit" /\ l.limit = <<0, TRUE>>

SomeCriterionNotMet(i) ==
    \E j \in 1..steps[i].completion_criteria : j \notin criteria_met

C16_UnlimitedStepLeftOnCriteria ==
    [][(Idle /\ MadeTransition(last') /\ steps[curr + 1].num_trials = -1) =>
        IF steps[curr + 1].completion_criteria = 0 \/ SomeCriterionNotMet(curr + 1)
        THEN curr' = curr /\ ~last'.moved /\ ~ReportsCompletion(last')
        ELSE IF curr + 1 = Len(steps)
        THEN curr' = curr /\ ReportsCompletion(last')
        ELSE curr' = curr + 1 /\ last'.moved]_vars

\* A gen call has reported completion on a last step with num_trials = -1 and
\* two completion criteria, both met.
C16_Witness ==
    /\ IsGenCall(last) /\ last.exc = "GenerationStrategyCompleted"
    /\ steps[curr + 1].num_trials = -1
    /\ steps[curr + 1].completion_criteria = 2
    /\ criteria_met = {1, 2}

\* C17: a gen call that reaches the transition on a current step with a finite
\* budget and enforce_num_trials=False, which has num_trials trials that are
\* not FAILED or ABANDONED and fewer than min_trials_observed COMPLETED or
\* EARLY_STOPPED trials, does not raise the transition's DataRequiredError and
\* leaves the current step as it is; the runs it returns carry that step; and
\* when nothing else stops it (no exception, no DataRequiredError of the model,
\* no max_parallelism) it returns as many runs as were asked for.
BudgetSpentNotObserved ==
    /\ steps[curr + 1].num_trials # -1
    /\ ~steps[curr + 1].enforce_num_trials
    /\ CountOfStep(curr, NotLost) >= steps[curr + 1].num_trials
    /\ CountOfStep(curr, Observed) < steps[curr + 1].min_trials_observed

C17_NotEnforcingKeepsGenerating ==
    [][(Idle /\ ReachedTransition(last') /\ BudgetSpentNotObserved) =>
        /\ ~RaisedDataRequired(last')
        /\ last'.exc # "GenerationStrategyCompleted"
        /\ curr' = curr /\ ~last'.moved
        /\ \A i \in 1..Len(last'.returned) : last'.returned[i].step = curr
        /\ (/\ last'.exc = "" /\ last'.loop.failed_at = -1
            /\ steps[curr + 1].max_parallelism = None) =>
             Len(last'.returned) = last'.requested]_vars

\* A gen call has returned a run of a step that does not enforce its budget,
\* which now has more live trials than its budget and too few observed.
C17_Witness ==
    /\ last.op = "gen" /\ last.exc = "" /\ Len(last.returned) = 1
    /\ last.returned[1].step = curr
    /\ ~steps[curr + 1].enforce_num_trials
    /\ steps[curr + 1].num_trials # -1
    /\ CountOfStep(curr, NotLost) >= steps[curr + 1].num_trials
    /\ CountOfStep(curr, Observed) < steps[curr + 1].min_trials_observed

\* C18 as stated: on a strategy bound to an experiment, a gen or _gen_multiple
\* call that passes a different experiment raises ValueError before the
\* transition and leaves the bound experiment, the current step, the history,
\* the model and the snapshot as they were, and a call that passes the bound
\* experiment is accepted.
RejectedAtBinding ==
    /\ last'.stage = "bind" /\ last'.exc = "ValueError"
    /\ last'.returned = <<>>
    /\ UNCHANGED <<experiment, curr, generator_runs, model, fitted, seen>>

SameConfiguration(c, d) ==
    /\ c.num_trials = d.num_trials
    /\ c.min_trials_observed = d.min_trials_observed
    /\ c.max_parallelism = d.max_parallelism
    /\ c.use_update = d.use_update
    /\ c.enforce_num_trials = d.enforce_num_trials
    /\ c.should_deduplicate = d.should_deduplicate
    /\ c.completion_criteria = d.completion_criteria
    /\ c.index = d.index

C19_CloneResetKeepsStepsOnly ==
    [][last'.op = "clone_reset" =>
        /\ Len(steps') = Len(steps)
        /\ \A i \in 1..Len(steps) : SameConfiguration(steps'[i], steps[i])
        /\ generator_runs' = <<>>
        /\ curr' = 0
        /\ experiment' = None]_vars

\* The clone of a two-step strategy whose second step had produced a trial
\* (so the strategy had a history, stood at step 1 and was bound to the
\* experiment), with the trials still on the experiment.
C19_Witness ==
    /\ last.op = "clone_reset"
    /\ Len(steps) = 2
    /\ \E t \in 1..Len(trials) : trials[t].step = 1
    /\ curr = 0 /\ generator_runs = <<>> /\ experiment = None

\* C20: GenerationStrategy(steps) on a non-empty list of steps raises
\* UserInputError exactly when some step is unlimited (num_trials = -1) with no
\* completion criteria and is not the last, or has a num_trials below 1 other
\* than -1, or has a max_parallelism that is set and below 1; otherwise it
\* raises nothing and leaves the strategy at step 0 with an empty history and
\* every step numbered by its position.
Misconfigured(cs, i) ==
    \/ cs[i].num_trials = -1 /\ cs[i].completion_criteria = 0 /\ i # Len(cs)
    \/ cs[i].num_trials < 1 /\ cs[i].num_trials # -1
    \/ cs[i].max_parallelism # None /\ Val(cs[i].max_parallelism) < 1

C20_ConstructionFailsOnMisconfiguration ==
    [][(last'.op = "__init__" /\ steps # <<>>) =>
        IF \E i \in 1..Len(steps) : Misconfigured(steps, i)
        THEN last'.exc = "UserInputError" /\ curr' = curr
        ELSE /\ last'.exc = ""
             /\ curr' = 0
             /\ generator_runs' = <<>>
             /\ Len(steps') = Len(steps)
             /\ \A i \in 1..Len(steps) :
                    /\ steps'[i].index = i - 1
                    /\ steps'[i] = [steps[i] EXCEPT !.index = i - 1]]_vars

\* A strategy of two steps has been constructed, the first unlimited with a
\* completion criterion and the second unlimited without.
C20_Witness ==
    /\ last.op = "__init__" /\ last.exc = ""
    /\ Len(steps) = 2 /\ curr = 0
    /\ steps[1].num_trials = -1 /\ steps[1].completion_criteria = 1
    /\ steps[2].num_trials = -1 /\ steps[2].completion_criteria = 0
    /\ steps[1].index = 0 /\ steps[2].index = 1

\* A list whose second step is misconfigured has been refused, after its first
\* step was numbered.
C20_RefusedWitness ==
    /\ last.op = "__init__" /\ last.exc = "UserInputError"
    /\ Len(steps) = 2 /\ steps[1].index = 0 /\ steps[2].index = -1

\* C21: GenerationStep(...) raises UserInputError from its budget check exactly
\* when enforce_num_trials is true, num_trials >= 0 and min_trials_observed >
\* num_trials; a min_trials_observed above num_trials is accepted when the step
\* does not enforce its budget or is unlimited.
C21_StepBudgetCheck ==
    node_call.state = "made" =>
        /\ (node_call.exc = "UserInputError") =
             (/\ node_call.enforce_num_trials
              /\ node_call.num_trials >= 0
              /\ node_call.min_trials_observed > node_call.num_trials)
        /\ (/\ node_call.min_trials_observed > node_call.num_trials
            /\ (~node_call.enforce_num_trials \/ node_call.num_trials = -1)) =>
             node_call.exc = ""

\* A step that does not enforce its budget has been constructed with a
\* min_trials_observed above its budget.
C21_Witness ==
    /\ node_call.state = "made" /\ node_call.exc = ""
    /\ ~node_call.enforce_num_trials
    /\ node_call.num_trials >= 0
    /\ node_call.min_trials_observed > node_call.num_trials

\* C22 as stated: when current_generator_run_limit would return (k, False) with
\* k >= 0, a _gen_multiple call made in the same state for m runs, whose fit
\* and whose model's gen do not fail, returns exactly min(m, k) runs if k > 0,
\* and if k = 0 returns none and raises DataRequiredError or
\* MaxParallelismReachedException.
GenerationDidNotFail(l) ==
    /\ l.op = "_gen_multiple"
    /\ l.stage \notin {"bind", "fit"}
    /\ l.loop.failed_at = -1

ProducesWhatLimitSays(l, k) ==
    IF k > 0
    THEN l.exc = "" /\ Len(l.returned) = Min(l.requested, k)
    ELSE /\ l.returned = <<>>
         /\ l.exc \in {"DataRequiredError", "MaxParallelismReachedException"}

C22_LimitIsWhatGenProduces ==
    [][(Idle /\ experiment # None /\ GenerationDidNotFail(last')) =>
        LET p == current_generator_run_limit
        IN  (p.exc = "" /\ ~p.limit[2] /\ p.limit[1] >= 0) =>
                ProducesWhatLimitSays(last', p.limit[1])]_vars

\* The same for the steps that enforce their budget.
C22_LimitOfEnforcingStep ==
    [][(Idle /\ experiment # None /\ GenerationDidNotFail(last')) =>
        LET p == current_generator_run_limit
        IN  (/\ p.exc = "" /\ ~p.limit[2] /\ p.limit[1] >= 0
             /\ steps[p.mv.curr + 1].enforce_num_trials) =>
                ProducesWhatLimitSays(last', p.limit[1])]_vars

\* C23: on a strategy bound to an experiment, current_generator_run_limit
\* returns (0, True) exactly in the states where a gen call with the bound
\* experiment raises GenerationStrategyCompleted (checked at every probe
\* against the gen calls of its state, and at every gen call against the probe
\* of its state), and it never raises DataRequiredError or
\* MaxParallelismReachedException.
GenRaisesCompleted ==
    \A data \in PassedInData, draws \in StepModelDraws :
        gen_multiple(Val(experiment), 1, data, 1, draws).exc
            = "GenerationStrategyCompleted"

GenMayRaiseCompleted ==
    \E data \in PassedInData, draws \in StepModelDraws :
        gen_multiple(Val(experiment), 1, data, 1, draws).exc
            = "GenerationStrategyCompleted"

C23_ProbeReportsCompletionAsGen ==
    [][/\ (Idle /\ experiment # None /\ last'.op = "current_generator_run_limit") =>
            /\ last'.exc \notin {"DataRequiredError", "MaxParallelismReachedException"}
            /\ (last'.exc = "" /\ last'.limit = <<0, TRUE>>) = GenRaisesCompleted
            /\ GenMayRaiseCompleted = GenRaisesCompleted
       /\ (Idle /\ experiment # None /\ ReachedTransition(last')) =>
            (last'.exc = "GenerationStrategyCompleted")
                = (current_generator_run_limit.limit = <<0, TRUE>>)]_vars

\* A probe has returned (0, True) on a strategy that no gen call had found
\* completed.
C23_Witness ==
    /\ last.op = "current_generator_run_limit"
    /\ last.exc = "" /\ last.limit = <<0, TRUE>>
    /\ ~completed
    /\ generator_runs # <<>>

\* C24: on a strategy bound to an experiment, a current_generator_run_limit
\* call changes nothing for what follows it with the experiment unchanged: a
\* gen call made after the probe ends like a gen call made instead of it (the
\* same exception, the same current step, runs with the same step index), and
\* a second probe returns what the first returned and leaves the current step
\* where the first left it.
GenTags(r) == [i \in 1..Len(r.returned) |-> r.returned[i].step]

GenEnds(r) == <<r.exc, r.curr, GenTags(r)>>

C24_ProbeIsIdempotent ==
    [][(Idle /\ experiment # None /\ last'.op = "current_generator_run_limit") =>
        /\ \A draws \in StepModelDraws :
              GenEnds(gen_multiple(Val(experiment), 1, None, 1, draws))'
                  = GenEnds(gen_multiple(Val(experiment), 1, None, 1, draws))
        /\ current_generator_run_limit'.exc = last'.exc
        /\ current_generator_run_limit'.limit = last'.limit
        /\ current_generator_run_limit'.mv.curr = curr']_vars

\* A probe has moved the strategy to its next step.
C24_Witness ==
    /\ last.op = "current_generator_run_limit" /\ last.exc = ""
    /\ last.moved /\ curr = 1

\* C25 as stated: the count that current_generator_run_limit returns is -1 or
\* more, and it is -1 only when the current step is unlimited and has no
\* max_parallelism.
C25_CountIsUnlimitedOrNonNegative ==
    (last.op = "current_generator_run_limit" /\ last.exc = "") =>
        /\ last.limit[1] >= -1
        /\ last.limit[1] = -1 =>
            /\ steps[curr + 1].num_trials = -1
            /\ steps[curr + 1].max_parallelism = None

\* The same for the probes made while no more trials of the current step are
\* running than its max_parallelism.
C25_CountWithinParallelism ==
    (/\ last.op = "current_generator_run_limit" /\ last.exc = ""
     /\ steps[curr + 1].max_parallelism # None =>
            num_running_trials(steps[curr + 1]) <= Val(steps[curr + 1].max_parallelism)) =>
        /\ last.limit[1] >= -1
        /\ last.limit[1] = -1 =>
            /\ steps[curr + 1].num_trials = -1
            /\ steps[curr + 1].max_parallelism = None

\* C26: num_trials_to_gen_and_complete returns (-1, -1) exactly for the steps
\* with num_trials = -1, and for any other step, whatever the trials of the
\* experiment and their statuses, (max(num_trials - A, 0),
\* max(min_trials_observed - B, 0)), A counting the step's trials that are not
\* FAILED or ABANDONED and B those that are COMPLETED or EARLY_STOPPED; the
\* trials of the other step do not count.
C26_LeftToGenAndComplete ==
    node_call.state = "counted" =>
        LET s == steps[node_call.step + 1]
            A == CountOfStep(node_call.step, NotLost)
            B == CountOfStep(node_call.step, Observed)
        IN  /\ (node_call.result = <<-1, -1>>) = (s.num_trials = -1)
            /\ s.num_trials # -1 =>
                 node_call.result = <<Max(s.num_trials - A, 0),
                                      Max(s.min_trials_observed - B, 0)>>

\* The counts of the second step of a strategy have been taken on an
\* experiment with a failed trial of that step and a completed trial of the
\* first step.
C26_Witness ==
    /\ node_call.state = "counted" /\ node_call.step = 1
    /\ steps[2].num_trials = 2 /\ steps[2].min_trials_observed = 1
    /\ \E t \in 1..Len(trials) : trials[t].step = 1 /\ trials[t].status = FAILED
    /\ \E t \in 1..Len(trials) : trials[t].step = 0 /\ trials[t].status = COMPLETED
    /\ node_call.result = <<2, 1>>

\* C27: a strategy whose steps all have finite budgets, whose runs are all
\* made into trials that all complete, and whose caller keeps calling gen,
\* eventually raises GenerationStrategyCompleted, and it does so at its last
\* step after moving through its steps one at a time.
C27_EventuallyCompleted ==
    /\ <>completed
    /\ [](completed => curr = Len(steps) - 1)
    /\ [][curr' = curr \/ curr' = curr + 1]_vars

\* A gen call on the second step of a strategy has raised
\* GenerationStrategyCompleted, after calls that raised DataRequiredError were
\* tried again.
C27_Witness ==
    /\ last.op = "gen" /\ last.exc = "GenerationStrategyCompleted"
    /\ completed /\ Len(steps) = 2 /\ curr = 1
    /\ \A t \in 1..Len(trials) : trials[t].status = COMPLETED
    /\ Len(trials) = 2

\* C28: a gen or _gen_multiple call that reaches the fit and takes the full fit
\* (the strategy has no model after the transition, or the step does not use
\* update) raises NoDataError exactly when the data for the fit (the data
\* passed in, else the data of the experiment, of COMPLETED trials only for a
\* use_update step) is empty, the current step is not step 0 and the step
\* before it has min_trials_observed > 0.  When it raises, no run is returned or
\* recorded and the snapshot of seen trials stays; otherwise the model is
\* fitted, to empty data too.
ReachedFit(l) == IsGenCall(l) /\ l.stage \notin {"bind", "move"}

DataForFit(l, s) ==
    IF l.passed_in_data # None THEN Val(l.passed_in_data)
    ELSE IF s.use_update THEN {t \in 0..(Len(trials) - 1) : trials[t + 1].status = COMPLETED}
    ELSE {t \in 0..(Len(trials) - 1) : trials[t + 1].status \in Observed}

C28_NoDataOnlyAfterObservingStep ==
    [][(/\ Idle /\ ReachedFit(last')
        /\ ~(~last'.moved /\ model # None /\ steps[curr' + 1].use_update)) =>
        IF /\ DataForFit(last', steps[curr' + 1]) = {}
           /\ curr' > 0
           /\ steps[curr'].min_trials_observed > 0
        THEN /\ last'.stage = "fit" /\ last'.exc = "NoDataError"
             /\ last'.returned = <<>>
             /\ generator_runs' = generator_runs
             /\ seen' = seen
        ELSE /\ last'.exc # "NoDataError" /\ last'.stage # "fit"
             /\ last'.fit = "fit"
             /\ last'.data = DataForFit(last', steps[curr' + 1])]_vars

\* A gen call that passed no data has raised NoDataError at the second step:
\* the first step's observed trial was stopped early, and the second step
\* fits to COMPLETED trials only.
C28_Witness ==
    /\ last.op = "gen" /\ last.stage = "fit" /\ last.exc = "NoDataError"
    /\ last.passed_in_data = None
    /\ curr = 1 /\ steps[1].min_trials_observed > 0

\* A gen call at step 0 has fitted the model to empty data.
C28_EmptyDataAccepted ==
    /\ last.op = "gen" /\ last.exc = "" /\ last.fit = "fit" /\ last.data = {}
    /\ curr = 0 /\ last.returned # <<>>

\* C29: a gen or _gen_multiple call that reaches the fit on a step whose model
\* no call has fitted yet (the first such call since the strategy moved to the
\* step, by a gen call or by a probe), or on a step with use_update=False,
\* never updates the model: it fits it in full, or raises NoDataError trying
\* to.
FullFit(l) ==
    /\ l.fit # "update"
    /\ l.fit = "fit" \/ (l.stage = "fit" /\ l.exc = "NoDataError")

C29_FullFitOnNewStep ==
    [][(Idle /\ ReachedFit(last')) =>
        /\ curr' \notin fitted => FullFit(last')
        /\ ~steps[curr' + 1].use_update => FullFit(last')
        /\ last'.fit = "update" =>
             ~last'.moved /\ steps[curr' + 1].use_update /\ curr' \in fitted]_vars

\* A gen call that did not move the strategy has fitted in full the model of
\* the second step, a use_update step.
C29_Witness ==
    /\ last.op = "gen" /\ last.exc = "" /\ last.fit = "fit" /\ ~last.moved
    /\ curr = 1 /\ steps[2].use_update
    /\ Len(last.returned) = 1

C31_NoModelBeforeFirstRun == generator_runs = <<>> => current_model = None

\* A strategy that has not been given an experiment yet has no model.
C31_NewStrategyHasNoModel ==
    (generator_runs = <<>> /\ experiment = None) => current_model = None

\* The index of the first trial generated by the step of index i.
FirstTrialOfStep(i) ==
    (CHOOSE t \in TrialsOfStep(i) : \A u \in TrialsOfStep(i) : t <= u) - 1

\* C32: in a strategy of steps with finite budgets whose every generator run
\* becomes one trial, entry i of model_transitions (counted from 0) is the
\* index of the first trial generated by step i + 1.
C32_TransitionsAreFirstTrials ==
    (pending = <<>> /\ Idle) =>
        \A i \in 1..(Len(steps) - 1) :
            TrialsOfStep(i) # {} => model_transitions[i] = FirstTrialOfStep(i)

\* The same, as long as every step enforces its budget and no trial has
\* failed or been abandoned.
C32_TransitionsWithoutLostTrials ==
    (/\ pending = <<>> /\ Idle
     /\ \A i \in 1..Len(steps) : steps[i].enforce_num_trials
     /\ \A t \in 1..Len(trials) : trials[t].status \in NotLost) =>
        \A i \in 1..(Len(steps) - 1) :
            TrialsOfStep(i) # {} => model_transitions[i] = FirstTrialOfStep(i)

\* C33: in every reachable state the step indices recorded on the runs of the
\* history, in chronological order, never decrease, and the last of them is
\* not greater than the index of the current step.
C33_HistoryFollowsSteps ==
    /\ \A i \in 1..Len(generator_runs) : \A j \in i..Len(generator_runs) :
        generator_runs[i].step <= generator_runs[j].step
    /\ generator_runs # <<>> => generator_runs[Len(generator_runs)].step <= curr

\* The history holds a run of step 0 followed by a run of step 1, and a probe
\* has since reported the strategy completed.
C33_Witness ==
    /\ Len(generator_runs) = 2
    /\ generator_runs[1].step = 0 /\ generator_runs[2].step = 1
    /\ curr = 1
    /\ last.op = "current_generator_run_limit" /\ last.limit = <<0, TRUE>>

\* The step of index i can be left as the experiment stands: nothing is left
\* to generate or to complete in it, or it is unlimited and all its completion
\* criteria are met.
CanBeLeft(i) ==
    LET s == steps[i + 1]
        counts == num_trials_to_gen_and_complete(s)
    IN  IF counts[1] = -1 /\ counts[2] = -1
        THEN s.completion_criteria > 0 /\ all_criteria_met(s)
        ELSE counts[1] <= 0 /\ counts[2] <= 0

\* C34: one call of gen, _gen_multiple or current_generator_run_limit moves
\* the current step forward by at most one step, also when the step it lands
\* on can itself be left already.
C34_OneStepPerCall ==
    [][(Idle /\ last'.op \in {"gen", "_gen_multiple", "current_generator_run_limit"}) =>
        /\ curr' \in {curr, curr + 1}
        /\ last'.moved <=> curr' = curr + 1]_vars

\* A call has moved the strategy to the second of three steps, which can be
\* left as well, and stopped there.
C34_Witness ==
    /\ Len(steps) = 3 /\ curr = 1
    /\ last.moved /\ last.exc = ""
    /\ CanBeLeft(1)

\* The number of runs the generation loop of the call recorded in l was to
\* make: the request, clamped for the step the call generated from (the
\* experiment's trials do not change during a call).
ClampedRequest(l, c) ==
    clamp_num_generator_runs(steps[c + 1], l.requested,
        num_remaining_trials_until_max_parallelism(steps[c + 1], FALSE).value)

\* C35: with trials made only from the strategy's own generator runs, a gen or
\* _gen_multiple call asking for at least one run raises or returns at least
\* one run: once the transition, the fit and the parallelism check have
\* succeeded the clamped number of runs is at least 1, and gen never fails
\* with IndexError on an empty list.
C35_NoEmptyResult ==
    [][(Idle /\ IsGenCall(last') /\ last'.requested >= 1) =>
        /\ last'.stage \in {"loop", "done"} => ClampedRequest(last', curr') >= 1
        /\ last'.exc = "" => last'.returned # <<>>
        /\ last'.exc # "IndexError"]_vars

\* _gen_multiple was asked for two runs on a step with a trial running, and
\* the clamp left exactly one to generate, which it returned.
C35_Witness ==
    /\ last.op = "_gen_multiple" /\ last.requested = 2 /\ last.exc = ""
    /\ ClampedRequest(last, curr) = 1
    /\ Len(last.returned) = 1
    /\ num_running_trials(steps[curr + 1]) = 1

\* Every trial generated by the step of index i has ended.
AllTrialsEnded(i) ==
    \A t \in TrialsOfStep(i) :
        trials[t].status \in {COMPLETED, EARLY_STOPPED, FAILED, ABANDONED}

\* The current step has a finite budget that it enforces.
EnforcingFiniteStep == steps[curr + 1].num_trials # -1 /\ steps[curr + 1].enforce_num_trials

\* C36: when the current step enforces a finite budget and every trial it
\* generated has ended (COMPLETED, EARLY_STOPPED, FAILED or ABANDONED), a gen
\* call does not raise the transition's DataRequiredError: with trials left in
\* the budget it stays on the step to generate from it, and otherwise it
\* advances to the next step or, on the last step, reports completion.
C36_NoStuckState ==
    [][(Idle /\ ReachedTransition(last') /\ EnforcingFiniteStep /\ AllTrialsEnded(curr)) =>
        /\ ~RaisedDataRequired(last')
        /\ IF CountOfStep(curr, Observed) < steps[curr + 1].num_trials
           THEN last'.stage # "move" /\ ~last'.moved /\ curr' = curr
           ELSE IF curr + 1 = Len(steps)
           THEN last'.stage = "move" /\ last'.exc = "GenerationStrategyCompleted"
           ELSE last'.stage # "move" /\ last'.moved /\ curr' = curr + 1]_vars

\* gen has returned a run of a step that needs observations and whose only
\* earlier trial had failed.
C36_Witness ==
    /\ last.op = "gen" /\ last.exc = "" /\ last.returned # <<>>
    /\ ~last.moved
    /\ EnforcingFiniteStep /\ steps[curr + 1].min_trials_observed > 0
    /\ TrialsOfStep(curr) # {} /\ CountOfStep(curr, {FAILED}) = Cardinality(TrialsOfStep(curr))

====
